---- MODULE Spec2Model ----
(***************************************************************************)
(* Taskify: a model of the task REST API (Express router, controllers and  *)
(* the Mongoose Task model), of the browser client's session handling and  *)
(* of the client's list utilities and of its Dashboard page.               *)
(*                                                                         *)
(* JavaScript strings are tuples of one-character strings, so that trim,   *)
(* toLowerCase, includes and the relational operators are computed rather  *)
(* than assumed.  null dates are the empty tuple, a date d is <<d>>.       *)
(* Database and network failures other than the HTTP statuses the code     *)
(* itself produces are outside the model.                                  *)
(***************************************************************************)
EXTENDS Integers, Sequences, FiniteSets, TLC

VARIABLES
    now,        \* server clock (new Date())
    tasks,      \* the tasks collection: _id -> document
    usedIds,    \* number of ObjectIds handed out so far
    res,        \* the last HTTP exchange at the server: request and response
    pin,        \* inputs of the pure list utilities
    pout,       \* their results
    ls,         \* browser localStorage
    auth,       \* AuthContext reducer state
    location,   \* window.location.href
    flows,      \* client calls in flight: responses, interceptor, continuation
    dash,       \* the Dashboard page: component state, timers, browser clock
    limiter     \* the store of the auth router's rate limiter

vars == <<now, tasks, usedIds, res, pin, pout, ls, auth, location, flows, dash,
          limiter>>

serverVars == <<now, tasks, usedIds, res>>
pureVars == <<pin, pout>>
clientVars == <<ls, auth, location, flows>>

----------------------------------------------------------------------------
(* Bounds *)

MaxTime == 2
MaxSubTasks == 1
MaxLen == 3

----------------------------------------------------------------------------
(* JavaScript strings *)

\* UTF-16 code unit order of the characters the model uses
CharOrder == <<" ", "A", "B", "a", "b", "c", "d", "e", "g", "h", "i", "k",
               "l", "m", "n", "o", "p", "r", "s", "t", "u", "w">>

Code(c) == CHOOSE i \in DOMAIN CharOrder : CharOrder[i] = c

LowerChar(c) == CASE c = "A" -> "a" [] c = "B" -> "b" [] OTHER -> c

toLowerCase(s) == [i \in 1..Len(s) |-> LowerChar(s[i])]

RECURSIVE trimStart(_)
trimStart(s) == IF s # <<>> /\ Head(s) = " " THEN trimStart(Tail(s)) ELSE s

RECURSIVE trimEnd(_)
trimEnd(s) ==
    IF s # <<>> /\ s[Len(s)] = " " THEN trimEnd(SubSeq(s, 1, Len(s) - 1)) ELSE s

trim(s) == trimEnd(trimStart(s))

\* String.prototype.includes
includes(s, t) ==
    \E i \in 0..(Len(s) - Len(t)) : SubSeq(s, i + 1, i + Len(t)) = t

\* the relational operator < on two strings: code units, left to right
RECURSIVE StrLT(_, _)
StrLT(a, b) ==
    IF b = <<>> THEN FALSE
    ELSE IF a = <<>> THEN TRUE
    ELSE IF Code(Head(a)) < Code(Head(b)) THEN TRUE
    ELSE IF Code(Head(a)) > Code(Head(b)) THEN FALSE
    ELSE StrLT(Tail(a), Tail(b))

\* Array.prototype.join(' ')
RECURSIVE join(_)
join(ss) ==
    IF ss = <<>> THEN <<>>
    ELSE IF Len(ss) = 1 THEN ss[1]
    ELSE ss[1] \o <<" ">> \o join(Tail(ss))

work == <<"w", "o", "r", "k">>
personal == <<"p", "e", "r", "s", "o", "n", "a", "l">>
other == <<"o", "t", "h", "e", "r">>
low == <<"l", "o", "w">>
medium == <<"m", "e", "d", "i", "u", "m">>
high == <<"h", "i", "g", "h">>
urgent == <<"u", "r", "g", "e", "n", "t">>
all == <<"a", "l", "l">>
bogus == <<"b", "o", "g", "u", "s">>

NoDate == <<>>

----------------------------------------------------------------------------
(* The Task model (Mongoose schema, hooks and methods) *)

Users == {"A", "B"}

CATEGORIES == {work, personal, other}
PRIORITIES == {low, medium, high, urgent}

\* ObjectIds in the order in which they are generated; "bad" is a string that
\* is not an ObjectId
IdSeq == <<"id1", "id2">>
ObjectIds == {IdSeq[i] : i \in DOMAIN IdSeq}
IdIndex(id) == CHOOSE i \in DOMAIN IdSeq : IdSeq[i] = id


\* new Task({...}) without the trim setter of title
NewTask_untrimmed(id, userId, title, description, category, priority, dueDate, tags) ==
    [id |-> id, userId |-> userId, title |-> title,
     description |-> trim(description), category |-> category,
     isDone |-> FALSE, priority |-> priority, dueDate |-> dueDate,
     completedAt |-> NoDate,
     tags |-> [i \in 1..Len(tags) |-> trim(tags[i])],
     subTasks |-> <<>>, attachments |-> <<>>,
     createdAt |-> CHOOSE i \in DOMAIN IdSeq : IdSeq[i] = id]

\* new Task({...}): the schema defaults of the paths the caller does not give.
\* createdAt is the document's position in creation order.
NewTask(id, userId, title, description, category, priority, dueDate, tags) ==
    [id |-> id, userId |-> userId, title |-> trim(title),
     description |-> trim(description), category |-> category,
     isDone |-> FALSE, priority |-> priority, dueDate |-> dueDate,
     completedAt |-> NoDate,
     tags |-> [i \in 1..Len(tags) |-> trim(tags[i])],
     subTasks |-> <<>>, attachments |-> <<>>,
     createdAt |-> IdIndex(id)]

\* the dueDate validator: !value || value > new Date()
dueDateValidator(value, t) == value = NoDate \/ value[1] > t

\* document validation before save(): every path of the document is
\* validated, whether this request modified it or not
ValidationErrors(doc, t) ==
    {m \in {"Task title is required", "Category must be one of",
            "Priority must be one of", "Due date must be in the future",
            "Subtask title is required"} :
        \/ m = "Task title is required" /\ doc.title = <<>>
        \/ m = "Category must be one of" /\ doc.category \notin CATEGORIES
        \/ m = "Priority must be one of" /\ doc.priority \notin PRIORITIES
        \/ m = "Due date must be in the future"
              /\ ~dueDateValidator(doc.dueDate, t)
        \/ m = "Subtask title is required"
              /\ \E i \in DOMAIN doc.subTasks : doc.subTasks[i].title = <<>>}

\* the hook stamping every save of a done task
preSave_everySave(doc, isDoneModified, t) ==
    IF doc.isDone
    THEN [doc EXCEPT !.completedAt = <<t>>]
    ELSE [doc EXCEPT !.completedAt = NoDate]

\* taskSchema.pre('save')
preSave(doc, isDoneModified, t) ==
    IF isDoneModified
    THEN IF doc.isDone /\ doc.completedAt = NoDate
         THEN [doc EXCEPT !.completedAt = <<t>>]
         ELSE IF ~doc.isDone
              THEN [doc EXCEPT !.completedAt = NoDate]
              ELSE doc
    ELSE doc

\* doc.save(): validation, then the pre-save hook, then the write.  stored
\* is the document as loaded (the new document itself for an insert).
\* The result is the written document, or the document unchanged when
\* validation rejects it (SaveOk tells which).
SaveOk(doc, t) == ValidationErrors(doc, t) = {}

Saved(doc, stored, t) == preSave(doc, doc.isDone # stored.isDone, t)

\* Task.find(filter) in natural (creation) order; matching is the set of
\* ids of the documents the filter selects
RECURSIVE FindFrom(_, _, _)
FindFrom(coll, i, matching) ==
    IF i > Len(IdSeq) THEN <<>>
    ELSE IF IdSeq[i] \in matching
         THEN <<coll[IdSeq[i]]>> \o FindFrom(coll, i + 1, matching)
         ELSE FindFrom(coll, i + 1, matching)

Find(coll, matching) == FindFrom(coll, 1, matching)

\* cursor.sort({key: dir}); key maps an _id to the integer sort key of its
\* document; equal keys keep their natural order
RECURSIVE InsertByKey(_, _, _, _)
InsertByKey(d, sorted, key, dir) ==
    IF sorted = <<>> THEN <<d>>
    ELSE IF dir * key[Head(sorted).id] <= dir * key[d.id]
         THEN <<Head(sorted)>> \o InsertByKey(d, Tail(sorted), key, dir)
         ELSE <<d>> \o sorted

RECURSIVE SortByKey(_, _, _)
SortByKey(docs, key, dir) ==
    IF docs = <<>> THEN <<>>
    ELSE InsertByKey(docs[Len(docs)],
                     SortByKey(SubSeq(docs, 1, Len(docs) - 1), key, dir),
                     key, dir)

createdAtKey(coll) == [i \in DOMAIN coll |-> coll[i].createdAt]
\* null sorts before every date
dueDateKey(coll) ==
    [i \in DOMAIN coll |->
        IF coll[i].dueDate = NoDate THEN 0 ELSE coll[i].dueDate[1]]

\* taskSchema.statics.findByCategory
findByCategory(coll, userId, category) ==
    SortByKey(Find(coll, {i \in DOMAIN coll :
                            /\ coll[i].userId = userId
                            /\ coll[i].category = category}),
              createdAtKey(coll), -1)

\* findOverdue without the isDone condition
findOverdue_anyStatus(coll, userId, t) ==
    SortByKey(Find(coll, {i \in DOMAIN coll :
                            /\ coll[i].userId = userId
                            /\ coll[i].dueDate # NoDate
                            /\ coll[i].dueDate[1] < t}),
              dueDateKey(coll), 1)

\* taskSchema.statics.findOverdue
findOverdue(coll, userId, t) ==
    SortByKey(Find(coll, {i \in DOMAIN coll :
                            /\ coll[i].userId = userId
                            /\ coll[i].isDone = FALSE
                            /\ coll[i].dueDate # NoDate
                            /\ coll[i].dueDate[1] < t}),
              dueDateKey(coll), 1)

\* Task.findOne({_id}): the owner left out of the filter
findOne_anyOwner(coll, id, userId) == {i \in DOMAIN coll : i = id}

\* Task.findOne({_id, userId}): the set of matching ids (empty or one)
findOne(coll, id, userId) ==
    {i \in DOMAIN coll : i = id /\ coll[i].userId = userId}

----------------------------------------------------------------------------
(* Routers and the auth middleware *)

\* a bearer token as the auth middleware sees it: valid for a user, or
\* missing, malformed or expired
ValidTokens == [kind : {"valid"}, user : Users]
BadTokens == [kind : {"missing", "invalid", "expired"}, user : {"-"}]

\* middleware/auth: accepts a request exactly when its token verifies, and
\* then sets req.user
authAccepts(tok) == tok.kind = "valid"

\* routes/tasks.js with router.use(auth) moved below the first route
taskRoutes_authLate == <<
    [method |-> "GET",    path |-> <<>>,                        chain |-> <<"getTasks">>],
    [method |-> "USE",    path |-> <<>>,                        chain |-> <<"auth">>],
    [method |-> "GET",    path |-> <<"overdue">>,               chain |-> <<"getOverdueTasks">>],
    [method |-> "GET",    path |-> <<"category", ":category">>, chain |-> <<"getTasksByCategory">>],
    [method |-> "GET",    path |-> <<":id">>,                   chain |-> <<"getTask">>],
    [method |-> "POST",   path |-> <<>>,                        chain |-> <<"createTask">>],
    [method |-> "PATCH",  path |-> <<":id">>,                   chain |-> <<"updateTask">>],
    [method |-> "PATCH",  path |-> <<":id", "toggle">>,         chain |-> <<"toggleTask">>],
    [method |-> "POST",   path |-> <<":id", "subtasks">>,       chain |-> <<"addSubTask">>],
    [method |-> "DELETE", path |-> <<":id">>,                   chain |-> <<"deleteTask">> ] >>

\* routes/tasks.js, in registration order
taskRoutes == <<
    [method |-> "USE",    path |-> <<>>,                        chain |-> <<"auth">>],
    [method |-> "GET",    path |-> <<>>,                        chain |-> <<"getTasks">>],
    [method |-> "GET",    path |-> <<"overdue">>,               chain |-> <<"getOverdueTasks">>],
    [method |-> "GET",    path |-> <<"category", ":category">>, chain |-> <<"getTasksByCategory">>],
    [method |-> "GET",    path |-> <<":id">>,                   chain |-> <<"getTask">>],
    [method |-> "POST",   path |-> <<>>,                        chain |-> <<"createTask">>],
    [method |-> "PATCH",  path |-> <<":id">>,                   chain |-> <<"updateTask">>],
    [method |-> "PATCH",  path |-> <<":id", "toggle">>,         chain |-> <<"toggleTask">>],
    [method |-> "POST",   path |-> <<":id", "subtasks">>,       chain |-> <<"addSubTask">>],
    [method |-> "DELETE", path |-> <<":id">>,                   chain |-> <<"deleteTask">> ] >>

\* routes/auth.js with the limiter mounted on /register only
authRoutes_loginUnlimited == <<
    [method |-> "USE",  path |-> <<"register">>, chain |-> <<"authLimiter">>],
    [method |-> "POST", path |-> <<"register">>, chain |-> <<"register">>],
    [method |-> "POST", path |-> <<"login">>,    chain |-> <<"login">>],
    [method |-> "GET",  path |-> <<"me">>,       chain |-> <<"auth", "getProfile">>],
    [method |-> "PUT",  path |-> <<"profile">>,  chain |-> <<"auth", "updateProfile">>],
    [method |-> "POST", path |-> <<"verify">>,   chain |-> <<"auth", "verifyToken">> ] >>

\* routes/auth.js, in registration order
authRoutes == <<
    [method |-> "USE",  path |-> <<"register">>, chain |-> <<"authLimiter">>],
    [method |-> "USE",  path |-> <<"login">>,    chain |-> <<"authLimiter">>],
    [method |-> "POST", path |-> <<"register">>, chain |-> <<"register">>],
    [method |-> "POST", path |-> <<"login">>,    chain |-> <<"login">>],
    [method |-> "GET",  path |-> <<"me">>,       chain |-> <<"auth", "getProfile">>],
    [method |-> "PUT",  path |-> <<"profile">>,  chain |-> <<"auth", "updateProfile">>],
    [method |-> "POST", path |-> <<"verify">>,   chain |-> <<"auth", "verifyToken">> ] >>

Routes(router) == IF router = "tasks" THEN taskRoutes ELSE authRoutes

IsParam(seg) == seg \in {":id", ":category"}

\* layer matching where a route, like use(), matches a prefix of the path
LayerMatches_prefix(layer, req) ==
    /\ layer.method \in {"USE", req.method}
    /\ Len(layer.path) <= Len(req.path)
    /\ \A i \in 1..Len(layer.path) :
           IsParam(layer.path[i]) \/ layer.path[i] = req.path[i]

\* Express layer matching: use() matches a path prefix and any method, a
\* route matches its method and the whole path, a :param any one segment
LayerMatches(layer, req) ==
    IF layer.method = "USE"
    THEN /\ Len(layer.path) <= Len(req.path)
         /\ \A i \in 1..Len(layer.path) : layer.path[i] = req.path[i]
    ELSE /\ layer.method = req.method
         /\ Len(layer.path) = Len(req.path)
         /\ \A i \in 1..Len(layer.path) :
                IsParam(layer.path[i]) \/ layer.path[i] = req.path[i]

\* the middleware and handler functions of the matching layers, in order
RECURSIVE Stack(_, _)
Stack(layers, req) ==
    IF layers = <<>> THEN <<>>
    ELSE IF LayerMatches(Head(layers), req)
         THEN Head(layers).chain \o Stack(Tail(layers), req)
         ELSE Stack(Tail(layers), req)

\* run the stack: a middleware either passes on with next() or ends the
\* request; the first handler ends it
RECURSIVE Run(_, _)
Run(stack, tok) ==
    IF stack = <<>> THEN "noRoute"
    ELSE IF Head(stack) = "auth"
         THEN IF authAccepts(tok) THEN Run(Tail(stack), tok) ELSE "unauthorized"
         ELSE IF Head(stack) = "authLimiter"
              THEN Run(Tail(stack), tok)
              ELSE Head(stack)

IdSegs == ObjectIds \cup {"bad"}

AuthPaths == {<<"register">>, <<"login">>, <<"me">>, <<"profile">>, <<"verify">>}

Methods == {"GET", "POST", "PUT", "PATCH", "DELETE"}

\* which function ends the request
Dispatch(req) == Run(Stack(Routes(req.router), req), req.tok)

\* req.user: set by the auth middleware when it is on the request's stack
\* and accepts the token, "-" otherwise
ReqUser(req) ==
    IF authAccepts(req.tok)
       /\ \E i \in DOMAIN Stack(Routes(req.router), req) :
             Stack(Routes(req.router), req)[i] = "auth"
    THEN req.tok.user ELSE "-"

\* path parameters (strings of the URL) as JavaScript strings
JS(seg) ==
    CASE seg = "work" -> work
      [] seg = "personal" -> personal
      [] seg = "other" -> other
      [] OTHER -> bogus

IsObjectId(seg) == seg \in ObjectIds

\* req.body: has is the set of properties present, the other fields their
\* values (a default where the property is absent)
EmptyBody == [has |-> {}, title |-> <<>>, description |-> <<>>,
              category |-> <<>>, priority |-> <<>>, isDone |-> FALSE,
              dueDate |-> NoDate, tags |-> <<>>]

NoMeta == [total |-> 0, completed |-> 0, pending |-> 0, overdue |-> 0,
           current |-> 0, pages |-> 0, count |-> 0, totalItems |-> 0]

NoReq == [router |-> "-", method |-> "-", path |-> <<>>,
          tok |-> [kind |-> "missing", user |-> "-"]]

\* what one exchange leaves behind: the request and its body, the function
\* that answered it, the status and message, the documents in the response
\* and its counts
Response(req, body, handler, status, message, docs, meta) ==
    [req |-> req, body |-> body, handler |-> handler, user |-> ReqUser(req),
     status |-> status, message |-> message, tasks |-> docs, meta |-> meta]

----------------------------------------------------------------------------
(* controllers/taskController.js *)

\* JavaScript truthiness of a string or date property of the body
Truthy(body, f) == f \in body.has /\ body[f] # <<>>

\* req.query of GET /api/tasks with the defaults of the destructuring
DefaultQuery == [category |-> <<>>, priority |-> <<>>, isDone |-> "absent",
                 search |-> <<>>, sortBy |-> "createdAt", sortOrder |-> "desc",
                 page |-> 1, limit |-> 50]

\* the $or of the three case-insensitive $regex conditions
SearchMatches(d, search) ==
    LET term == toLowerCase(search)
    IN  \/ includes(toLowerCase(d.title), term)
        \/ includes(toLowerCase(d.description), term)
        \/ \E i \in DOMAIN d.tags : includes(toLowerCase(d.tags[i]), term)

\* the filter object getTasks builds
QueryFilter(coll, userId, q) ==
    {i \in DOMAIN coll :
        /\ coll[i].userId = userId
        /\ (q.category # <<>> /\ q.category # all)
              => coll[i].category = q.category
        /\ (q.priority # <<>> /\ q.priority # all)
              => coll[i].priority = q.priority
        /\ q.isDone # "absent" => coll[i].isDone = (q.isDone = "true")
        /\ q.search # <<>> => SearchMatches(coll[i], q.search)}

SortKey(coll, sortBy) ==
    IF sortBy = "dueDate" THEN dueDateKey(coll) ELSE createdAtKey(coll)

\* cursor.skip(n).limit(m)
SkipLimit(docs, n, m) ==
    SubSeq(docs, n + 1, IF n + m < Len(docs) THEN n + m ELSE Len(docs))

Ceil(a, b) == (a + b - 1) \div b

\* the $group stage of the statistics aggregate
Stats(coll, userId, t) ==
    LET mine == {i \in DOMAIN coll : coll[i].userId = userId}
    IN  [total |-> Cardinality(mine),
         completed |-> Cardinality({i \in mine : coll[i].isDone}),
         pending |-> Cardinality({i \in mine : ~coll[i].isDone}),
         overdue |-> Cardinality({i \in mine :
                        /\ ~coll[i].isDone
                        /\ coll[i].dueDate # NoDate
                        /\ coll[i].dueDate[1] < t})]

getTasks(req, q) ==
    /\ Dispatch(req) = "getTasks"
    /\ LET matching == QueryFilter(tasks, req.tok.user, q)
           sorted == SortByKey(Find(tasks, matching), SortKey(tasks, q.sortBy),
                               IF q.sortOrder = "desc" THEN -1 ELSE 1)
           page == SkipLimit(sorted, (q.page - 1) * q.limit, q.limit)
           st == Stats(tasks, req.tok.user, now)
       IN  res' = Response(req, EmptyBody, "getTasks", 200, "", page,
                    [total |-> st.total, completed |-> st.completed,
                     pending |-> st.pending, overdue |-> st.overdue,
                     current |-> q.page,
                     pages |-> Ceil(Cardinality(matching), q.limit),
                     count |-> Len(page),
                     totalItems |-> Cardinality(matching)])
    /\ UNCHANGED <<now, tasks, usedIds>>

getTask(req) ==
    /\ Dispatch(req) = "getTask"
    /\ LET id == req.path[1]
           found == findOne(tasks, id, req.tok.user)
       IN  res' = IF ~IsObjectId(id)
                  THEN Response(req, EmptyBody, "getTask", 400, "Invalid task ID", <<>>, NoMeta)
                  ELSE IF found = {}
                  THEN Response(req, EmptyBody, "getTask", 404, "Task not found", <<>>, NoMeta)
                  ELSE Response(req, EmptyBody, "getTask", 200, "", <<tasks[id]>>, NoMeta)
    /\ UNCHANGED <<now, tasks, usedIds>>

\* id is the ObjectId that new Task() generates: the next unused one
createTask(req, body, id) ==
    /\ Dispatch(req) = "createTask"
    /\ IF ~Truthy(body, "title") \/ trim(body.title) = <<>>
       THEN /\ res' = Response(req, body, "createTask", 400,
                               "Task title is required", <<>>, NoMeta)
            /\ UNCHANGED <<tasks, usedIds>>
       ELSE IF ~Truthy(body, "category")
       THEN /\ res' = Response(req, body, "createTask", 400,
                               "Task category is required", <<>>, NoMeta)
            /\ UNCHANGED <<tasks, usedIds>>
       ELSE /\ usedIds < Len(IdSeq)
            /\ id = IdSeq[usedIds + 1]
            /\ LET task == NewTask(id, req.tok.user, body.title,
                             IF "description" \in body.has
                             THEN body.description ELSE <<>>,
                             body.category,
                             IF Truthy(body, "priority")
                             THEN body.priority ELSE medium,
                             IF Truthy(body, "dueDate")
                             THEN body.dueDate ELSE NoDate,
                             IF "tags" \in body.has THEN body.tags ELSE <<>>)
               IN  IF SaveOk(task, now)
                   THEN /\ tasks' = [i \in DOMAIN tasks \cup {id} |->
                                       IF i = id THEN Saved(task, task, now)
                                       ELSE tasks[i]]
                        /\ usedIds' = usedIds + 1
                        /\ res' = Response(req, body, "createTask", 201,
                                    "Task created successfully",
                                    <<Saved(task, task, now)>>, NoMeta)
                   ELSE /\ res' = Response(req, body, "createTask", 400,
                                    "Validation error", <<>>, NoMeta)
                        /\ UNCHANGED <<tasks, usedIds>>
    /\ UNCHANGED now

\* the forEach assigning description whether the body has it or not
Assign_absentToo(doc, body) ==
    [doc EXCEPT
        !.title = IF "title" \in body.has THEN trim(body.title) ELSE @,
        !.description = trim(body.description),
        !.category = IF "category" \in body.has THEN body.category ELSE @,
        !.priority = IF "priority" \in body.has THEN body.priority ELSE @,
        !.isDone = IF "isDone" \in body.has THEN body.isDone ELSE @,
        !.dueDate = IF "dueDate" \in body.has THEN body.dueDate ELSE @,
        !.tags = IF "tags" \in body.has
                 THEN [i \in 1..Len(body.tags) |-> trim(body.tags[i])]
                 ELSE @]

\* the assignments of updateTask's forEach over updateFields, with the
\* schema's trim setters
Assign(doc, body) ==
    [doc EXCEPT
        !.title = IF "title" \in body.has THEN trim(body.title) ELSE @,
        !.description =
            IF "description" \in body.has THEN trim(body.description) ELSE @,
        !.category = IF "category" \in body.has THEN body.category ELSE @,
        !.priority = IF "priority" \in body.has THEN body.priority ELSE @,
        !.isDone = IF "isDone" \in body.has THEN body.isDone ELSE @,
        !.dueDate = IF "dueDate" \in body.has THEN body.dueDate ELSE @,
        !.tags = IF "tags" \in body.has
                 THEN [i \in 1..Len(body.tags) |-> trim(body.tags[i])]
                 ELSE @]

updateTask(req, body) ==
    /\ Dispatch(req) = "updateTask"
    /\ LET id == req.path[1]
           found == findOne(tasks, id, req.tok.user)
       IN  IF ~IsObjectId(id)
           THEN /\ res' = Response(req, body, "updateTask", 400, "Invalid task ID",
                                   <<>>, NoMeta)
                /\ UNCHANGED tasks
           ELSE IF found = {}
           THEN /\ res' = Response(req, body, "updateTask", 404, "Task not found",
                                   <<>>, NoMeta)
                /\ UNCHANGED tasks
           ELSE LET task == Assign(tasks[id], body)
                IN  IF SaveOk(task, now)
                    THEN /\ tasks' = [tasks EXCEPT
                                        ![id] = Saved(task, tasks[id], now)]
                         /\ res' = Response(req, body, "updateTask", 200,
                                     "Task updated successfully",
                                     <<Saved(task, tasks[id], now)>>, NoMeta)
                    ELSE /\ res' = Response(req, body, "updateTask", 400,
                                     "Validation error", <<>>, NoMeta)
                         /\ UNCHANGED tasks
    /\ UNCHANGED <<now, usedIds>>

deleteTask(req) ==
    /\ Dispatch(req) = "deleteTask"
    /\ LET id == req.path[1]
           found == findOne(tasks, id, req.tok.user)
       IN  IF ~IsObjectId(id)
           THEN /\ res' = Response(req, EmptyBody, "deleteTask", 400, "Invalid task ID",
                                   <<>>, NoMeta)
                /\ UNCHANGED tasks
           ELSE IF found = {}
           THEN /\ res' = Response(req, EmptyBody, "deleteTask", 404, "Task not found",
                                   <<>>, NoMeta)
                /\ UNCHANGED tasks
           ELSE /\ tasks' = [i \in DOMAIN tasks \ {id} |-> tasks[i]]
                /\ res' = Response(req, EmptyBody, "deleteTask", 200,
                                   "Task deleted successfully", <<>>, NoMeta)
    /\ UNCHANGED <<now, usedIds>>

\* taskSchema.methods.toggleCompletion, before its save()
toggleCompletion(doc) == [doc EXCEPT !.isDone = ~doc.isDone]

toggleTask(req) ==
    /\ Dispatch(req) = "toggleTask"
    /\ LET id == req.path[1]
           found == findOne(tasks, id, req.tok.user)
       IN  IF ~IsObjectId(id)
           THEN /\ res' = Response(req, EmptyBody, "toggleTask", 400, "Invalid task ID",
                                   <<>>, NoMeta)
                /\ UNCHANGED tasks
           ELSE IF found = {}
           THEN /\ res' = Response(req, EmptyBody, "toggleTask", 404, "Task not found",
                                   <<>>, NoMeta)
                /\ UNCHANGED tasks
           ELSE LET task == toggleCompletion(tasks[id])
                    saved == Saved(task, tasks[id], now)
                IN  IF SaveOk(task, now)
                    THEN /\ tasks' = [tasks EXCEPT ![id] = saved]
                         /\ res' = Response(req, EmptyBody, "toggleTask", 200,
                                     IF saved.isDone
                                     THEN "Task marked as completed"
                                     ELSE "Task marked as pending",
                                     <<saved>>, NoMeta)
                    ELSE /\ res' = Response(req, EmptyBody, "toggleTask", 500,
                                     "Server error toggling task", <<>>, NoMeta)
                         /\ UNCHANGED tasks
    /\ UNCHANGED <<now, usedIds>>

\* taskSchema.methods.addSubTask, before its save()
pushSubTask(doc, title) ==
    [doc EXCEPT !.subTasks = Append(@, [title |-> trim(title), isDone |-> FALSE])]

addSubTask(req, body) ==
    /\ Dispatch(req) = "addSubTask"
    /\ LET id == req.path[1]
           found == findOne(tasks, id, req.tok.user)
       IN  IF ~Truthy(body, "title") \/ trim(body.title) = <<>>
           THEN /\ res' = Response(req, body, "addSubTask", 400,
                                   "Subtask title is required", <<>>, NoMeta)
                /\ UNCHANGED tasks
           ELSE IF ~IsObjectId(id)
           THEN /\ res' = Response(req, body, "addSubTask", 400, "Invalid task ID",
                                   <<>>, NoMeta)
                /\ UNCHANGED tasks
           ELSE IF found = {}
           THEN /\ res' = Response(req, body, "addSubTask", 404, "Task not found",
                                   <<>>, NoMeta)
                /\ UNCHANGED tasks
           ELSE LET task == pushSubTask(tasks[id], trim(body.title))
                    saved == Saved(task, tasks[id], now)
                IN  IF SaveOk(task, now)
                    THEN /\ Len(tasks[id].subTasks) < MaxSubTasks
                         /\ tasks' = [tasks EXCEPT ![id] = saved]
                         /\ res' = Response(req, body, "addSubTask", 201,
                                     "Subtask added successfully",
                                     <<saved>>, NoMeta)
                    ELSE /\ res' = Response(req, body, "addSubTask", 500,
                                     "Server error adding subtask", <<>>, NoMeta)
                         /\ UNCHANGED tasks
    /\ UNCHANGED <<now, usedIds>>

getTasksByCategory(req) ==
    /\ Dispatch(req) = "getTasksByCategory"
    /\ LET found == findByCategory(tasks, req.tok.user, JS(req.path[2]))
       IN  res' = Response(req, EmptyBody, "getTasksByCategory", 200, "", found,
                           [NoMeta EXCEPT !.count = Len(found)])
    /\ UNCHANGED <<now, tasks, usedIds>>

getOverdueTasks(req) ==
    /\ Dispatch(req) = "getOverdueTasks"
    /\ LET found == findOverdue(tasks, req.tok.user, now)
       IN  res' = Response(req, EmptyBody, "getOverdueTasks", 200, "", found,
                           [NoMeta EXCEPT !.count = Len(found)])
    /\ UNCHANGED <<now, tasks, usedIds>>

----------------------------------------------------------------------------
(* controllers/authController.js and the answers of the middleware *)

\* register and login answer with a token for the user, or refuse
register(req, user, ok) ==
    /\ Dispatch(req) = "register"
    /\ res' = IF ok
              THEN [Response(req, EmptyBody, "register", 201, "User registered", <<>>, NoMeta)
                       EXCEPT !.user = user]
              ELSE Response(req, EmptyBody, "register", 400, "Registration refused", <<>>, NoMeta)
    /\ UNCHANGED <<now, tasks, usedIds>>

login(req, user, ok) ==
    /\ Dispatch(req) = "login"
    /\ res' = IF ok
              THEN [Response(req, EmptyBody, "login", 200, "Login successful", <<>>, NoMeta)
                       EXCEPT !.user = user]
              ELSE Response(req, EmptyBody, "login", 401, "Invalid credentials", <<>>, NoMeta)
    /\ UNCHANGED <<now, tasks, usedIds>>

\* getProfile, updateProfile and verifyToken answer about req.user
profileHandler(req) ==
    /\ Dispatch(req) \in {"getProfile", "updateProfile", "verifyToken"}
    /\ res' = Response(req, EmptyBody, Dispatch(req), 200, "", <<>>, NoMeta)
    /\ UNCHANGED <<now, tasks, usedIds>>

\* the auth middleware ends the request
unauthorized(req) ==
    /\ Dispatch(req) = "unauthorized"
    /\ res' = Response(req, EmptyBody, "none", 401, "Unauthorized", <<>>, NoMeta)
    /\ UNCHANGED <<now, tasks, usedIds>>

\* no layer answers: Express's final handler
noRoute(req) ==
    /\ Dispatch(req) = "noRoute"
    /\ res' = Response(req, EmptyBody, "none", 404, "Cannot " \o req.method, <<>>, NoMeta)
    /\ UNCHANGED <<now, tasks, usedIds>>

\* time passes
Tick ==
    /\ now < MaxTime
    /\ now' = now + 1
    /\ UNCHANGED <<tasks, usedIds, res>>

----------------------------------------------------------------------------
(* The server: requests of two users against the task API *)

pureIdle == pin = <<>> /\ pout = <<>>
clientIdle == ls = <<>> /\ auth = <<>> /\ location = "/" /\ flows = <<>>
dashIdle == dash = <<>>
limiterIdle == limiter = <<>>

ServerInit ==
    /\ now = 0
    /\ tasks = <<>>
    /\ usedIds = 0
    /\ res = [req |-> NoReq, body |-> EmptyBody, handler |-> "none",
              user |-> "-", status |-> 0, message |-> "", tasks |-> <<>>,
              meta |-> NoMeta]

Init == ServerInit /\ pureIdle /\ clientIdle /\ dashIdle /\ limiterIdle

\* the requests of the two users, by route, and requests of a client whose
\* token has expired
Req(router, method, path, tok) ==
    [router |-> router, method |-> method, path |-> path, tok |-> tok]

ReqGetTasks == {Req("tasks", "GET", <<>>, tok) : tok \in ValidTokens}
ReqGetTask == {Req("tasks", "GET", <<id>>, tok) : id \in IdSegs, tok \in ValidTokens}
ReqCreateTask == {Req("tasks", "POST", <<>>, tok) : tok \in ValidTokens}
ReqUpdateTask == {Req("tasks", "PATCH", <<id>>, tok) : id \in IdSegs, tok \in ValidTokens}
ReqDeleteTask == {Req("tasks", "DELETE", <<id>>, tok) : id \in IdSegs, tok \in ValidTokens}
ReqToggleTask ==
    {Req("tasks", "PATCH", <<id, "toggle">>, tok) : id \in IdSegs, tok \in ValidTokens}
ReqAddSubTask ==
    {Req("tasks", "POST", <<id, "subtasks">>, tok) : id \in IdSegs, tok \in ValidTokens}
ReqByCategory ==
    {Req("tasks", "GET", <<"category", "work">>, tok) : tok \in ValidTokens}
ReqOverdue == {Req("tasks", "GET", <<"overdue">>, tok) : tok \in ValidTokens}
ReqExpired ==
    {Req("tasks", "GET", <<>>, [kind |-> "expired", user |-> "-"]),
     Req("tasks", "DELETE", <<"id1">>, [kind |-> "expired", user |-> "-"])}

ta == <<"a">>
tb == <<" ", "b">>
blank == <<" ">>

CreateBodies ==
    {[EmptyBody EXCEPT !.has = {"title", "category", "dueDate"},
                       !.title = ta, !.category = work, !.dueDate = <<1>>],
     [EmptyBody EXCEPT !.has = {"title", "category"},
                       !.title = blank, !.category = work]}

UpdateBodies ==
    {[EmptyBody EXCEPT !.has = {"isDone"}, !.isDone = TRUE],
     [EmptyBody EXCEPT !.has = {"priority"}, !.priority = bogus]}

SubTaskBodies ==
    {[EmptyBody EXCEPT !.has = {"title"}, !.title = blank],
     [EmptyBody EXCEPT !.has = {"title"}, !.title = tb]}

Queries ==
    {DefaultQuery,
     [DefaultQuery EXCEPT !.isDone = "false", !.sortOrder = "asc"]}

\* a step of the server leaves the client and the list utilities alone
ServerOnly == UNCHANGED <<pureVars, clientVars, dash, limiter>>

Next ==
    \/ Tick /\ ServerOnly
    \/ \E req \in ReqGetTasks, q \in Queries : getTasks(req, q) /\ ServerOnly
    \/ \E req \in ReqGetTask : getTask(req) /\ ServerOnly
    \/ \E req \in ReqCreateTask, body \in CreateBodies, id \in ObjectIds :
          createTask(req, body, id) /\ ServerOnly
    \/ \E req \in ReqUpdateTask, body \in UpdateBodies :
          updateTask(req, body) /\ ServerOnly
    \/ \E req \in ReqDeleteTask : deleteTask(req) /\ ServerOnly
    \/ \E req \in ReqToggleTask : toggleTask(req) /\ ServerOnly
    \/ \E req \in ReqAddSubTask, body \in SubTaskBodies :
          addSubTask(req, body) /\ ServerOnly
    \/ \E req \in ReqByCategory : getTasksByCategory(req) /\ ServerOnly
    \/ \E req \in ReqOverdue : getOverdueTasks(req) /\ ServerOnly
    \/ \E req \in ReqExpired : unauthorized(req) /\ ServerOnly

Spec == Init /\ [][Next]_vars

----------------------------------------------------------------------------
(* The routers: every method on every path, with and without a good token *)

RouterPaths ==
    {<<>>, <<"overdue">>, <<"category", "work">>, <<"id1">>,
     <<"id1", "toggle">>, <<"id1", "subtasks">>}

RouterRequests ==
    [router : {"tasks"}, method : Methods, path : RouterPaths,
     tok : BadTokens \cup {[kind |-> "valid", user |-> "A"]}]
    \cup [router : {"auth"}, method : Methods, path : AuthPaths,
          tok : BadTokens \cup {[kind |-> "valid", user |-> "A"]}]

RouterBody ==
    [EmptyBody EXCEPT !.has = {"title", "category", "isDone"},
                      !.title = ta, !.category = work, !.isDone = TRUE]

RouterNext ==
    \/ \E req \in RouterRequests : getTasks(req, DefaultQuery) /\ ServerOnly
    \/ \E req \in RouterRequests : getTask(req) /\ ServerOnly
    \/ \E req \in RouterRequests : createTask(req, RouterBody, "id1") /\ ServerOnly
    \/ \E req \in RouterRequests : updateTask(req, RouterBody) /\ ServerOnly
    \/ \E req \in RouterRequests : deleteTask(req) /\ ServerOnly
    \/ \E req \in RouterRequests : toggleTask(req) /\ ServerOnly
    \/ \E req \in RouterRequests : addSubTask(req, RouterBody) /\ ServerOnly
    \/ \E req \in RouterRequests : getTasksByCategory(req) /\ ServerOnly
    \/ \E req \in RouterRequests : getOverdueTasks(req) /\ ServerOnly
    \/ \E req \in RouterRequests, ok \in BOOLEAN :
          register(req, "A", ok) /\ ServerOnly
    \/ \E req \in RouterRequests, ok \in BOOLEAN :
          login(req, "A", ok) /\ ServerOnly
    \/ \E req \in RouterRequests : profileHandler(req) /\ ServerOnly
    \/ \E req \in RouterRequests : unauthorized(req) /\ ServerOnly
    \/ \E req \in RouterRequests : noRoute(req) /\ ServerOnly

RouterSpec == Init /\ [][RouterNext]_vars

----------------------------------------------------------------------------
(* The browser client: services/api.js and context/AuthContext.js *)

\* what the server can put in a response: tokens and user objects
NoValue == "null"
TokenStrings == {"t1", "t2"}
UserObjects == {"uA", "uB"}

\* JSON.stringify of a user object, and JSON.parse of a stored string (the
\* strings that do not parse are outside its domain)
JSONstringify(u) == "json:" \o u
Parses(str) == \E u \in UserObjects : JSONstringify(u) = str
JSONparse(str) == CHOOSE u \in UserObjects : JSONstringify(u) = str

\* helpers.js getFromStorage(key): null for a missing or unparsable item
getFromStorage(item) ==
    IF item # NoValue /\ Parses(item) THEN JSONparse(item) ELSE NoValue

initialState ==
    [user |-> NoValue, token |-> NoValue, isLoading |-> TRUE,
     isAuthenticated |-> FALSE, error |-> NoValue]

\* the reducer with LOGIN_SUCCESS leaving isLoading as it is
authReducer_loadingKept(state, type, flag, value, token) ==
    CASE type = "SET_LOADING" -> [state EXCEPT !.isLoading = flag]
      [] type = "SET_USER" ->
            [state EXCEPT !.user = value, !.isAuthenticated = (value # "null")]
      [] type = "SET_TOKEN" -> [state EXCEPT !.token = value]
      [] type = "SET_ERROR" -> [state EXCEPT !.error = value, !.isLoading = FALSE]
      [] type = "LOGIN_SUCCESS" ->
            [state EXCEPT !.user = value, !.token = token,
                          !.isAuthenticated = TRUE, !.error = "null"]
      [] type = "LOGOUT" ->
            [state EXCEPT !.user = "null", !.token = "null",
                          !.isAuthenticated = FALSE, !.isLoading = FALSE,
                          !.error = "null"]
      [] type = "UPDATE_USER" -> [state EXCEPT !.user = value]
      [] type = "CLEAR_ERROR" -> [state EXCEPT !.error = "null"]
      [] OTHER -> state

\* the reducer: flag is the payload of SET_LOADING, value the payload of the
\* other actions, token the second half of LOGIN_SUCCESS's payload
authReducer(state, type, flag, value, token) ==
    CASE type = "SET_LOADING" -> [state EXCEPT !.isLoading = flag]
      [] type = "SET_USER" ->
            [state EXCEPT !.user = value, !.isAuthenticated = (value # NoValue)]
      [] type = "SET_TOKEN" -> [state EXCEPT !.token = value]
      [] type = "SET_ERROR" -> [state EXCEPT !.error = value, !.isLoading = FALSE]
      [] type = "LOGIN_SUCCESS" ->
            [state EXCEPT !.user = value, !.token = token,
                          !.isAuthenticated = TRUE, !.isLoading = FALSE,
                          !.error = NoValue]
      [] type = "LOGOUT" ->
            [state EXCEPT !.user = NoValue, !.token = NoValue,
                          !.isAuthenticated = FALSE, !.isLoading = FALSE,
                          !.error = NoValue]
      \* {...state.user, ...payload}: the server sends the whole user object
      [] type = "UPDATE_USER" -> [state EXCEPT !.user = value]
      [] type = "CLEAR_ERROR" -> [state EXCEPT !.error = NoValue]
      [] OTHER -> state

SetLoading(state, flag) == authReducer(state, "SET_LOADING", flag, NoValue, NoValue)
Dispatch1(state, type, value) == authReducer(state, type, FALSE, value, NoValue)

\* the calls of authAPI the provider makes, by the function that makes them
Calls == {"loadUserFromStorage", "login", "register", "updateProfile",
          "refreshProfile"}


NoSettled == [call |-> "none", status |-> 0, token |-> NoValue,
              user |-> NoValue, message |-> NoValue, rejected |-> FALSE]
NoOutcome == [call |-> "none", result |-> "none"]

\* no promise reaction is waiting to run: only then can a new event (a click,
\* an arriving response) be handled
Quiet == flows.settled.call = "none"

InFlight == {c \in Calls : flows.pc[c] = "wait"}

\* the interceptor with the removal of 'user' left out
responseInterceptor_keepsUser(call, status, token, user, message) ==
    /\ flows.settled.call = "none"
    /\ flows.pc[call] = "wait"
    /\ IF status = 401
       THEN /\ ls' = [ls EXCEPT !.token = "null"]
            /\ location' = "->/login"
       ELSE UNCHANGED <<ls, location>>
    /\ flows' = [flows EXCEPT
                    !.pc[call] = "settled",
                    !.settled = [call |-> call, status |-> status,
                                 token |-> token, user |-> user,
                                 message |-> message,
                                 rejected |-> (status # 200)]]
    /\ UNCHANGED auth

\* api.interceptors.response: runs when the response of a call arrives.  A
\* 2xx response is passed on; an error response may clear the session and
\* is passed on as a rejection.
responseInterceptor(call, status, token, user, message) ==
    /\ Quiet
    /\ flows.pc[call] = "wait"
    /\ IF status = 401
       THEN /\ ls' = [token |-> NoValue, user |-> NoValue]
            /\ location' = "->/login"
       ELSE UNCHANGED <<ls, location>>
    /\ flows' = [flows EXCEPT
                    !.pc[call] = "settled",
                    !.settled = [call |-> call, status |-> status,
                                 token |-> token, user |-> user,
                                 message |-> message,
                                 rejected |-> (status # 200)]]
    /\ UNCHANGED auth

\* the call is over: the caller got a value back, or the error was thrown to it
Finish(call, result) ==
    [flows EXCEPT !.pc[call] = "idle", !.settled = NoSettled,
                  !.last = [call |-> call, result |-> result]]

\* the fallback whatever the server said
ErrorMessage_fallbackOnly(settled, fallback) == fallback

\* error.response?.data?.message || fallback
ErrorMessage(settled, fallback) ==
    IF settled.message # NoValue THEN settled.message ELSE fallback

\* loadUserFromStorage restoring the session on the token alone
loadUserFromStorage_tokenOnly ==
    /\ Quiet
    /\ flows.pc["loadUserFromStorage"] = "start"
    /\ LET token == ls.token
           user == getFromStorage(ls.user)
       IN  IF token # NoValue
           THEN /\ auth' = Dispatch1(Dispatch1(auth, "SET_TOKEN", token),
                                     "SET_USER", user)
                /\ flows' = [flows EXCEPT !.pc["loadUserFromStorage"] = "wait"]
           ELSE /\ auth' = SetLoading(auth, FALSE)
                /\ flows' = [flows EXCEPT !.pc["loadUserFromStorage"] = "idle"]
    /\ UNCHANGED <<ls, location>>

\* useEffect on mount: loadUserFromStorage up to its await
loadUserFromStorage ==
    /\ Quiet
    /\ flows.pc["loadUserFromStorage"] = "start"
    /\ LET token == ls.token
           user == getFromStorage(ls.user)
       IN  IF token # NoValue /\ user # NoValue
           THEN /\ auth' = Dispatch1(Dispatch1(auth, "SET_TOKEN", token),
                                     "SET_USER", user)
                /\ flows' = [flows EXCEPT !.pc["loadUserFromStorage"] = "wait"]
           ELSE /\ auth' = SetLoading(auth, FALSE)
                /\ flows' = [flows EXCEPT !.pc["loadUserFromStorage"] = "idle"]
    /\ UNCHANGED <<ls, location>>

\* loadUserFromStorage after authAPI.verifyToken() settled
loadUserFromStorageResume ==
    /\ flows.settled.call = "loadUserFromStorage"
    /\ IF ~flows.settled.rejected
       THEN /\ auth' = SetLoading(
                          Dispatch1(auth, "UPDATE_USER", flows.settled.user),
                          FALSE)
            /\ UNCHANGED ls
       ELSE /\ ls' = [token |-> NoValue, user |-> NoValue]
            /\ auth' = SetLoading(Dispatch1(auth, "LOGOUT", NoValue), FALSE)
    /\ flows' = Finish("loadUserFromStorage", "returned")
    /\ UNCHANGED location

\* login and register up to their await
signIn(call) ==
    /\ Quiet
    /\ call \in {"login", "register"}
    /\ flows.pc[call] = "idle"
    /\ auth' = Dispatch1(SetLoading(auth, TRUE), "CLEAR_ERROR", NoValue)
    /\ flows' = [flows EXCEPT !.pc[call] = "wait"]
    /\ UNCHANGED <<ls, location>>

\* login and register after authAPI.login() / authAPI.register() settled
signInResume(call) ==
    /\ call \in {"login", "register"}
    /\ flows.settled.call = call
    /\ IF ~flows.settled.rejected
       THEN /\ ls' = [token |-> flows.settled.token,
                      user |-> JSONstringify(flows.settled.user)]
            /\ auth' = authReducer(auth, "LOGIN_SUCCESS", FALSE,
                                   flows.settled.user, flows.settled.token)
            /\ flows' = Finish(call, "returned")
       ELSE /\ auth' = Dispatch1(auth, "SET_ERROR",
                          ErrorMessage(flows.settled,
                              IF call = "login" THEN "Login failed"
                              ELSE "Registration failed"))
            /\ flows' = Finish(call, "threw")
            /\ UNCHANGED ls
    /\ UNCHANGED location

\* logout that leaves the token in localStorage
logout_keepsToken ==
    /\ Quiet
    /\ ls' = [ls EXCEPT !.user = NoValue]
    /\ auth' = Dispatch1(auth, "LOGOUT", NoValue)
    /\ UNCHANGED <<location, flows>>

\* logout(): the two items are removed and LOGOUT is dispatched
logout ==
    /\ Quiet
    /\ ls' = [token |-> NoValue, user |-> NoValue]
    /\ auth' = Dispatch1(auth, "LOGOUT", NoValue)
    /\ UNCHANGED <<location, flows>>

\* updateProfile up to its await
updateProfile ==
    /\ Quiet
    /\ flows.pc["updateProfile"] = "idle"
    /\ auth' = Dispatch1(SetLoading(auth, TRUE), "CLEAR_ERROR", NoValue)
    /\ flows' = [flows EXCEPT !.pc["updateProfile"] = "wait"]
    /\ UNCHANGED <<ls, location>>

updateProfileResume ==
    /\ flows.settled.call = "updateProfile"
    /\ IF ~flows.settled.rejected
       THEN /\ ls' = [ls EXCEPT !.user = JSONstringify(flows.settled.user)]
            /\ auth' = SetLoading(
                          Dispatch1(auth, "UPDATE_USER", flows.settled.user),
                          FALSE)
            /\ flows' = Finish("updateProfile", "returned")
       ELSE /\ auth' = Dispatch1(auth, "SET_ERROR",
                          ErrorMessage(flows.settled, "Profile update failed"))
            /\ flows' = Finish("updateProfile", "threw")
            /\ UNCHANGED ls
    /\ UNCHANGED location

\* refreshProfile up to its await
refreshProfile ==
    /\ Quiet
    /\ flows.pc["refreshProfile"] = "idle"
    /\ flows' = [flows EXCEPT !.pc["refreshProfile"] = "wait"]
    /\ UNCHANGED <<ls, auth, location>>

refreshProfileResume ==
    /\ flows.settled.call = "refreshProfile"
    /\ IF ~flows.settled.rejected
       THEN /\ ls' = [ls EXCEPT !.user = JSONstringify(flows.settled.user)]
            /\ auth' = Dispatch1(auth, "UPDATE_USER", flows.settled.user)
            /\ flows' = Finish("refreshProfile", "returned")
       ELSE /\ flows' = Finish("refreshProfile", "threw")
            /\ UNCHANGED <<ls, auth>>
    /\ UNCHANGED location

\* the navigation that assigning window.location.href starts: the page at
\* /login is loaded, the provider is constructed anew and requests in flight
\* are dropped
StartFlows ==
    [pc |-> [c \in Calls |-> IF c = "loadUserFromStorage" THEN "start" ELSE "idle"],
     settled |-> NoSettled, last |-> NoOutcome]

Reload ==
    /\ Quiet
    /\ location = "->/login"
    /\ location' = "/login"
    /\ auth' = initialState
    /\ flows' = StartFlows
    /\ UNCHANGED ls

\* what the browser may hold when the page is opened
InitialStorages ==
    {[token |-> NoValue, user |-> NoValue],
     [token |-> "t1", user |-> JSONstringify("uA")],
     [token |-> "t1", user |-> NoValue],
     [token |-> "t1", user |-> "json:{"]}

ClientInit ==
    /\ ls \in InitialStorages
    /\ auth = initialState
    /\ location = "/"
    /\ flows = StartFlows
    /\ ServerInit /\ pureIdle /\ dashIdle /\ limiterIdle

\* the answers a call can get: success with the server's token and user, an
\* error status with or without a message, or no response
Answers ==
    [status : {200}, token : TokenStrings, user : UserObjects, message : {NoValue}]
    \cup [status : {400, 401}, token : {NoValue}, user : {NoValue},
          message : {"refused", NoValue}]
    \cup [status : {0}, token : {NoValue}, user : {NoValue}, message : {NoValue}]

MaxInFlight == 2
CanSend == Cardinality(InFlight) < MaxInFlight

ClientOnly == UNCHANGED <<serverVars, pureVars, dash, limiter>>

ClientNext ==
    \/ loadUserFromStorage /\ ClientOnly
    \/ loadUserFromStorageResume /\ ClientOnly
    \/ \E call \in {"login", "register"} : CanSend /\ signIn(call) /\ ClientOnly
    \/ \E call \in {"login", "register"} : signInResume(call) /\ ClientOnly
    \/ logout /\ ClientOnly
    \/ CanSend /\ updateProfile /\ ClientOnly
    \/ updateProfileResume /\ ClientOnly
    \/ CanSend /\ refreshProfile /\ ClientOnly
    \/ refreshProfileResume /\ ClientOnly
    \/ \E call \in Calls, a \in Answers :
          responseInterceptor(call, a.status, a.token, a.user, a.message)
          /\ ClientOnly
    \/ Reload /\ ClientOnly

ClientSpec == ClientInit /\ [][ClientNext]_vars

----------------------------------------------------------------------------
(* Properties of the task API *)

ByIdHandlers == {"getTask", "updateTask", "deleteTask", "toggleTask", "addSubTask"}
TaskHandlers == ByIdHandlers \cup
    {"getTasks", "createTask", "getTasksByCategory", "getOverdueTasks"}

\* a step that serves a request (every step but the passing of time)
Served == now' = now

\* the request just answered named a task that is not the requester's: the
\* id is not an ObjectId, or no task has it, or the task is another user's
NotOwnTarget ==
    /\ res'.handler \in ByIdHandlers
    /\ ~(/\ res'.req.path[1] \in DOMAIN tasks
          /\ tasks[res'.req.path[1]].userId = res'.user)

\* no document in the response, and no stored task changed by the request,
\* is another user's
ScopedToRequester ==
    /\ \A k \in DOMAIN res'.tasks : res'.tasks[k].userId = res'.user
    /\ \A i \in DOMAIN tasks :
          tasks[i].userId # res'.user
             => i \in DOMAIN tasks' /\ tasks'[i] = tasks[i]

\* C1 as stated: every task request is scoped to the requester, and each of
\* the five by-id operations on an id that does not exist or is another
\* user's answers 404 'Task not found' and changes nothing (read with "a
\* task id" meaning a well-formed ObjectId)
C1_AsStated ==
    [][Served /\ res'.handler \in TaskHandlers =>
          /\ ScopedToRequester
          /\ (NotOwnTarget /\ IsObjectId(res'.req.path[1])) =>
                /\ res'.status = 404
                /\ res'.message = "Task not found"
                /\ tasks' = tasks]_vars

\* C1 amended: every task request is scoped to the requester; a by-id
\* operation on an id that is not a task of the requester changes nothing
\* and answers 404 'Task not found', except that an id that is not an
\* ObjectId answers 400 'Invalid task ID' and addSubTask with a missing or
\* blank title answers 400 'Subtask title is required' whatever the id
C1_Scoped ==
    [][Served /\ res'.handler \in TaskHandlers =>
          /\ ScopedToRequester
          /\ NotOwnTarget =>
                /\ tasks' = tasks
                /\ IF res'.handler = "addSubTask"
                      /\ (~Truthy(res'.body, "title")
                            \/ trim(res'.body.title) = <<>>)
                   THEN res'.status = 400
                        /\ res'.message = "Subtask title is required"
                   ELSE IF ~IsObjectId(res'.req.path[1])
                   THEN res'.status = 400 /\ res'.message = "Invalid task ID"
                   ELSE res'.status = 404 /\ res'.message = "Task not found"]_vars

\* a by-id request of one user for a stored task of the other was answered
\* 404 while the requester has a task of their own
C1_Witness ==
    /\ res.handler \in {"updateTask", "deleteTask", "toggleTask", "addSubTask"}
    /\ res.status = 404
    /\ res.req.path[1] \in DOMAIN tasks
    /\ tasks[res.req.path[1]].userId # res.user
    /\ \E i \in DOMAIN tasks : tasks[i].userId = res.user

\* the routes C2 lists as private
PrivateRoutes ==
    {[router |-> "tasks", method |-> "GET", path |-> <<>>],
     [router |-> "tasks", method |-> "GET", path |-> <<"overdue">>],
     [router |-> "tasks", method |-> "GET", path |-> <<"category", ":category">>],
     [router |-> "tasks", method |-> "GET", path |-> <<":id">>],
     [router |-> "tasks", method |-> "POST", path |-> <<>>],
     [router |-> "tasks", method |-> "PATCH", path |-> <<":id">>],
     [router |-> "tasks", method |-> "PATCH", path |-> <<":id", "toggle">>],
     [router |-> "tasks", method |-> "POST", path |-> <<":id", "subtasks">>],
     [router |-> "tasks", method |-> "DELETE", path |-> <<":id">>],
     [router |-> "auth", method |-> "GET", path |-> <<"me">>],
     [router |-> "auth", method |-> "PUT", path |-> <<"profile">>],
     [router |-> "auth", method |-> "POST", path |-> <<"verify">>]}

IsPrivate(req) ==
    \E r \in PrivateRoutes : r.router = req.router /\ LayerMatches(r, req)

\* C2: on every private route a handler runs only for a request whose token
\* the auth middleware accepted; a request with a missing, invalid or
\* expired token is answered 401, no handler runs, no task is returned or
\* changed; the only handlers that run without a good token are register
\* and login
C2_AuthFirst ==
    [][Served =>
          /\ (IsPrivate(res'.req) /\ res'.req.tok.kind # "valid") =>
                /\ res'.status = 401
                /\ res'.handler = "none"
                /\ res'.tasks = <<>>
                /\ tasks' = tasks
          /\ (res'.handler # "none" /\ res'.req.tok.kind # "valid")
                => res'.handler \in {"register", "login"}]_vars

\* a DELETE of a stored task with an expired token was answered 401 and the
\* task is still stored
C2_Witness ==
    /\ res.req.method = "DELETE"
    /\ res.req.path = <<"id1">>
    /\ res.req.tok.kind = "expired"
    /\ res.status = 401
    /\ "id1" \in DOMAIN tasks

----------------------------------------------------------------------------
(* Properties of the client session *)

\* the step in which the response of a call arrives and the response
\* interceptor runs
Intercepted == flows.settled.call = "none" /\ flows'.settled.call # "none"

\* C3: when a response with status 401 arrives, the interceptor removes
\* 'token' and 'user' from localStorage, sends the browser to /login and
\* still rejects; for any other error the stored token and user stay
C3_Interceptor401 ==
    [][Intercepted =>
          /\ flows'.settled.status = 401 =>
                /\ ls'.token = NoValue /\ ls'.user = NoValue
                /\ location' = "->/login"
                /\ flows'.settled.rejected
          /\ flows'.settled.status \notin {200, 401} =>
                /\ ls' = ls
                /\ location' = location
                /\ flows'.settled.rejected]_vars

\* a 401 has just arrived for a client that had restored a stored session
C3_Witness ==
    /\ flows.settled.status = 401
    /\ flows.settled.rejected
    /\ auth.token = "t1"
    /\ ls.token = NoValue /\ ls.user = NoValue
    /\ location = "->/login"

\* the step in which login or register resumes after a successful answer
SignedIn ==
    /\ flows.settled.call \in {"login", "register"}
    /\ ~flows.settled.rejected
    /\ flows'.settled.call = "none"

\* C4: after a successful login or register, localStorage holds the token
\* and the user the server returned, and the auth state has that user and
\* token, isAuthenticated = true, isLoading = false and error = null
C4_SignedIn ==
    [][SignedIn =>
          /\ ls'.token = flows.settled.token
          /\ getFromStorage(ls'.user) = flows.settled.user
          /\ auth' = [user |-> flows.settled.user,
                      token |-> flows.settled.token,
                      isAuthenticated |-> TRUE, isLoading |-> FALSE,
                      error |-> NoValue]]_vars

\* register has returned with the session of user uB stored, replacing the
\* restored session of uA
C4_Witness ==
    /\ flows.last = [call |-> "register", result |-> "returned"]
    /\ auth.user = "uB" /\ auth.token = "t2" /\ auth.isAuthenticated
    /\ ls = [token |-> "t2", user |-> JSONstringify("uB")]

----------------------------------------------------------------------------
(* The client utilities: utils/helpers.js *)

pending == <<"p", "e", "n", "d", "i", "n", "g">>
completed == <<"c", "o", "m", "p", "l", "e", "t", "e", "d">>
constructor == <<"c", "o", "n", "s", "t", "r", "u", "c", "t", "o", "r">>

\* the property key an undefined value is converted to
undefined == <<"u", "n", "d", "e", "f", "i", "n", "e", "d">>

\* the year of new Date('9999-12-31'); the dates of the model are far below
FarFuture == 9999

\* a task object as the client holds it; has lists the optional properties
\* that are present
ClientTask(id, has, title, description, tags, category, priority, isDone, dueDate, createdAt, updatedAt) ==
    [id |-> id, has |-> has, title |-> title, description |-> description,
     tags |-> tags, category |-> category, priority |-> priority,
     isDone |-> isDone, dueDate |-> dueDate, createdAt |-> createdAt,
     updatedAt |-> updatedAt]

\* task.priority: undefined when the property is absent
PriorityOf(task) ==
    IF "priority" \in task.has THEN task.priority ELSE undefined

\* the values a sort key can have: a number, a string, or an object that
\* converts to NaN (the only one the model has is the function Object)
Num(n) == [kind |-> "number", n |-> n, s |-> <<>>]
Str(str) == [kind |-> "string", n |-> 0, s |-> str]
ObjectFunction == [kind |-> "object", n |-> 0, s |-> <<>>]

\* priorities[priority] || 2: the four own properties of the literal, the
\* member constructor it inherits from Object.prototype (a function, which
\* is truthy), and undefined for any other key
getPriorityValue(priority) ==
    IF priority = low THEN Num(1)
    ELSE IF priority = medium THEN Num(2)
    ELSE IF priority = high THEN Num(3)
    ELSE IF priority = urgent THEN Num(4)
    ELSE IF priority = constructor THEN ObjectFunction
    ELSE Num(2)

\* aValue and bValue at the comparison
SortValue(task, sortBy) ==
    IF sortBy = "priority" THEN getPriorityValue(PriorityOf(task))
    ELSE IF sortBy = "title"
         THEN Str(IF "title" \in task.has THEN toLowerCase(task.title) ELSE <<>>)
    ELSE IF sortBy = "dueDate"
         THEN Num(IF task.dueDate # NoDate THEN task.dueDate[1] ELSE FarFuture)
    ELSE IF sortBy = "createdAt" THEN Num(task.createdAt)
    ELSE IF sortBy = "updatedAt" THEN Num(task.updatedAt)
    ELSE Str(task.category)

\* aValue < bValue: numbers by value, strings by code units; an object
\* against a number converts to NaN and the function Object against itself
\* is the same string, so both give false
Less(aValue, bValue) ==
    IF aValue.kind = "number" /\ bValue.kind = "number" THEN aValue.n < bValue.n
    ELSE IF aValue.kind = "string" /\ bValue.kind = "string"
         THEN StrLT(aValue.s, bValue.s)
    ELSE FALSE

\* the comparator that takes every order for ascending
compare_alwaysAsc(a, b, sortBy, sortOrder) ==
    IF Less(SortValue(a, sortBy), SortValue(b, sortBy)) THEN -1
    ELSE IF Less(SortValue(b, sortBy), SortValue(a, sortBy)) THEN 1
    ELSE 0

\* the comparator given to Array.prototype.sort
compare(a, b, sortBy, sortOrder) ==
    IF Less(SortValue(a, sortBy), SortValue(b, sortBy))
    THEN (IF sortOrder = "asc" THEN -1 ELSE 1)
    ELSE IF Less(SortValue(b, sortBy), SortValue(a, sortBy))
    THEN (IF sortOrder = "asc" THEN 1 ELSE -1)
    ELSE 0

\* a consistent comparator in the sense of Array.prototype.sort: the relations
\* = 0, < 0 and > 0 it induces on the elements are transitive
Consistent(taskList, sortBy, sortOrder) ==
    \A i, j, k \in 1..Len(taskList) :
        LET ij == compare(taskList[i], taskList[j], sortBy, sortOrder)
            jk == compare(taskList[j], taskList[k], sortBy, sortOrder)
            ik == compare(taskList[i], taskList[k], sortBy, sortOrder)
        IN  /\ (ij = 0 /\ jk = 0) => ik = 0
            /\ (ij < 0 /\ jk < 0) => ik < 0
            /\ (ij > 0 /\ jk > 0) => ik > 0

\* x put into a sorted list behind every element that does not sort after it
RECURSIVE Insert(_, _, _, _)
Insert(sorted, x, sortBy, sortOrder) ==
    IF sorted = <<>> THEN <<x>>
    ELSE IF compare(sorted[Len(sorted)], x, sortBy, sortOrder) > 0
         THEN Append(Insert(SubSeq(sorted, 1, Len(sorted) - 1), x, sortBy, sortOrder),
                     sorted[Len(sorted)])
    ELSE Append(sorted, x)

\* the stable sort of a list under a consistent comparator
RECURSIVE StableSort(_, _, _)
StableSort(taskList, sortBy, sortOrder) ==
    IF taskList = <<>> THEN <<>>
    ELSE Insert(StableSort(SubSeq(taskList, 1, Len(taskList) - 1), sortBy, sortOrder),
                taskList[Len(taskList)], sortBy, sortOrder)

\* the parameter default: sortOrder = 'desc'
DefaultOrder(sortOrder) == IF sortOrder = "undefined" THEN "desc" ELSE sortOrder

\* [...tasks].sort(comparator): the lists the call can return.  With a
\* consistent comparator that is the stable sort; with an inconsistent one
\* the order is implementation-defined, any permutation.
sortTasks(taskList, sortBy, sortOrder) ==
    IF Consistent(taskList, sortBy, DefaultOrder(sortOrder))
    THEN {StableSort(taskList, sortBy, DefaultOrder(sortOrder))}
    ELSE {[i \in 1..Len(taskList) |-> taskList[p[i]]] : p \in Permutations(1..Len(taskList))}

\* filterTasks without the category filter
filterTasks_noCategory(taskList, filters) ==
    LET keep(task) ==
            /\ ~(/\ filters.status # <<>> /\ filters.status # all
                 /\ \/ filters.status = pending /\ task.isDone
                    \/ filters.status = completed /\ ~task.isDone)
            /\ ~(/\ filters.priority # <<>> /\ filters.priority # all
                 /\ PriorityOf(task) # filters.priority)
            /\ filters.search # <<>> =>
                  LET searchTerm == toLowerCase(filters.search)
                      title == IF "title" \in task.has
                               THEN toLowerCase(task.title) ELSE <<>>
                      description == IF "description" \in task.has
                                     THEN toLowerCase(task.description) ELSE <<>>
                      tags == IF "tags" \in task.has
                              THEN toLowerCase(join(task.tags)) ELSE <<>>
                  IN  \/ includes(title, searchTerm)
                      \/ includes(description, searchTerm)
                      \/ includes(tags, searchTerm)
    IN  SelectSeq(taskList, keep)

\* tasks.filter(task => ...): a task is dropped at the first filter it fails
filterTasks(taskList, filters) ==
    LET keep(task) ==
            /\ ~(/\ filters.status # <<>> /\ filters.status # all
                 /\ \/ filters.status = pending /\ task.isDone
                    \/ filters.status = completed /\ ~task.isDone)
            /\ ~(/\ filters.category # <<>> /\ filters.category # all
                 /\ task.category # filters.category)
            /\ ~(/\ filters.priority # <<>> /\ filters.priority # all
                 /\ PriorityOf(task) # filters.priority)
            /\ filters.search # <<>> =>
                  LET searchTerm == toLowerCase(filters.search)
                      title == IF "title" \in task.has
                               THEN toLowerCase(task.title) ELSE <<>>
                      description == IF "description" \in task.has
                                     THEN toLowerCase(task.description) ELSE <<>>
                      tags == IF "tags" \in task.has
                              THEN toLowerCase(join(task.tags)) ELSE <<>>
                  IN  \/ includes(title, searchTerm)
                      \/ includes(description, searchTerm)
                      \/ includes(tags, searchTerm)
    IN  SelectSeq(taskList, keep)

\* isOverdue(dueDate) at time t: false without a due date
isOverdue(dueDate, t) == IF dueDate = NoDate THEN FALSE ELSE dueDate[1] < t

\* Math.round(x) for x = num / den >= 0: the nearest integer, halves upwards
MathRound(num, den) == (2 * num + den) \div (2 * den)

\* the number of positions of a list that a set of positions selects
Count(positions) == Cardinality(positions)

\* getTaskStats counting every task with a passed due date as overdue
getTaskStats_doneOverdue(taskList, t) ==
    LET total == Len(taskList)
        done == Count({i \in 1..Len(taskList) : taskList[i].isDone})
    IN  [total |-> total,
         completed |-> done,
         pending |-> total - done,
         overdue |-> Count({i \in 1..Len(taskList) :
                              isOverdue(taskList[i].dueDate, t)}),
         completionRate |-> IF total > 0 THEN MathRound(done * 100, total) ELSE 0]

\* getTaskStats(tasks), called at time t
getTaskStats(taskList, t) ==
    LET total == Len(taskList)
        done == Count({i \in 1..Len(taskList) : taskList[i].isDone})
    IN  [total |-> total,
         completed |-> done,
         pending |-> total - done,
         overdue |-> Count({i \in 1..Len(taskList) :
                              ~taskList[i].isDone
                                  /\ isOverdue(taskList[i].dueDate, t)}),
         completionRate |-> IF total > 0 THEN MathRound(done * 100, total) ELSE 0]

----------------------------------------------------------------------------
(* Calls of the client utilities on bounded inputs *)

\* lists of at most MaxLen tasks of a universe, each task at most once
Lists(universe) ==
    UNION {{l \in [1..n -> universe] :
                \A i, j \in 1..n : i < j => l[i].id # l[j].id} : n \in 0..MaxLen}

NoFilters == [status |-> all, category |-> all, priority |-> all, search |-> <<>>]

\* tasks that differ in status, category and priority
FilterUniverse ==
    {ClientTask((IF d THEN 4 ELSE 0) + (IF c = work THEN 2 ELSE 0)
                    + (IF p = low THEN 1 ELSE 0) + 1,
                {"title", "description", "tags", "priority"},
                IF c = work THEN <<"a", "B">> ELSE <<"b">>, <<>>,
                IF p = low THEN <<<<"a">>>> ELSE <<>>,
                c, p, d, NoDate, 1, 1) :
        d \in BOOLEAN, c \in {work, personal}, p \in {low, high}}

FilterInputs ==
    [status : {<<>>, all, pending, completed}, category : {<<>>, all, work},
     priority : {all, high}, search : {<<>>, <<"a">>}]

\* tasks that differ in title, description and tags, each present or not
TitleOptions == <<[has |-> {}, v |-> <<>>], [has |-> {"title"}, v |-> <<"a", "B">>]>>
DescriptionOptions ==
    <<[has |-> {}, v |-> <<>>], [has |-> {"description"}, v |-> <<"b">>]>>
TagsOptions ==
    <<[has |-> {}, v |-> <<>>], [has |-> {"tags"}, v |-> <<>>],
      [has |-> {"tags"}, v |-> <<<<"a">>, <<"b">>>>],
      [has |-> {"tags"}, v |-> <<<<"B", "a">>>>]>>

SearchUniverse ==
    {ClientTask((i - 1) * 8 + (j - 1) * 4 + k,
                TitleOptions[i].has \cup DescriptionOptions[j].has
                    \cup TagsOptions[k].has \cup {"priority"},
                TitleOptions[i].v, DescriptionOptions[j].v, TagsOptions[k].v,
                other, medium, FALSE, NoDate, 1, 1) :
        i \in 1..2, j \in 1..2, k \in 1..4}

SearchInputs ==
    {[NoFilters EXCEPT !.search = term] :
        term \in {<<"a">>, <<"A">>, <<"b">>, <<"a", "b">>, <<"a", " ", "b">>}}

\* tasks whose sort keys are in different orders, with ties on the title
\* (compared without case), the priority rank, the due date and the category
SortUniverse ==
    {ClientTask(1, {"title", "priority"}, <<"b">>, <<>>, <<>>, work, low,
                FALSE, NoDate, 1, 3),
     ClientTask(2, {"title", "priority"}, <<"B">>, <<>>, <<>>, personal, urgent,
                TRUE, <<2>>, 2, 2),
     ClientTask(3, {"title", "priority"}, <<"a">>, <<>>, <<>>, other, medium,
                FALSE, <<1>>, 3, 1),
     ClientTask(4, {"title"}, <<"A", "b">>, <<>>, <<>>, work, <<>>,
                FALSE, NoDate, 4, 4),
     ClientTask(5, {"priority"}, <<>>, <<>>, <<>>, other, bogus,
                TRUE, <<1>>, 5, 3),
     ClientTask(6, {"title", "priority"}, <<"a", "b">>, <<>>, <<>>, personal, high,
                FALSE, <<2>>, 6, 2)}

SortKeys == {"createdAt", "updatedAt", "title", "priority", "dueDate", "category"}
SortOrders == {"asc", "desc", "undefined"}

\* tasks that differ in the priority only: the four values, none, a name
\* that is no property, and the name of an inherited property
RankUniverse ==
    {ClientTask(1, {"title", "priority"}, <<"a">>, <<>>, <<>>, other, low,
                FALSE, NoDate, 1, 1),
     ClientTask(2, {"title", "priority"}, <<"a">>, <<>>, <<>>, other, medium,
                FALSE, NoDate, 1, 1),
     ClientTask(3, {"title", "priority"}, <<"a">>, <<>>, <<>>, other, high,
                FALSE, NoDate, 1, 1),
     ClientTask(4, {"title", "priority"}, <<"a">>, <<>>, <<>>, other, urgent,
                FALSE, NoDate, 1, 1),
     ClientTask(5, {"title"}, <<"a">>, <<>>, <<>>, other, <<>>,
                FALSE, NoDate, 1, 1),
     ClientTask(6, {"title", "priority"}, <<"a">>, <<>>, <<>>, other, bogus,
                FALSE, NoDate, 1, 1),
     ClientTask(7, {"title", "priority"}, <<"a">>, <<>>, <<>>, other, constructor,
                FALSE, NoDate, 1, 1)}

\* tasks that differ in isDone and in the due date, two of each
StatsUniverse ==
    {ClientTask((IF d THEN 6 ELSE 0) + 2 * (IF due = NoDate THEN 0 ELSE due[1]) + copy,
                {"title", "priority"}, <<"a">>, <<>>, <<>>, other, medium,
                d, due, 1, 1) :
        d \in BOOLEAN, due \in {NoDate, <<1>>, <<2>>}, copy \in 1..2}

\* tasks that differ in the due date only: two without one, one due soon,
\* one due after the year 9999
DueUniverse ==
    {ClientTask(1, {"title", "priority"}, <<"a">>, <<>>, <<>>, other, medium,
                FALSE, NoDate, 1, 1),
     ClientTask(2, {"title", "priority"}, <<"a">>, <<>>, <<>>, other, medium,
                FALSE, NoDate, 1, 1),
     ClientTask(3, {"title", "priority"}, <<"a">>, <<>>, <<>>, other, medium,
                FALSE, <<1>>, 1, 1),
     ClientTask(4, {"title", "priority"}, <<"a">>, <<>>, <<>>, other, medium,
                FALSE, <<FarFuture + 1>>, 1, 1)}

\* the times at which a utility that reads the clock is called
CallTimes == 1..(MaxTime + 1)

\* at is the time of the call
PureInputs ==
    [kind : {"filter"}, tasks : Lists(FilterUniverse), filters : FilterInputs,
     sortBy : {"createdAt"}, sortOrder : {"desc"}, at : {0}]
    \cup [kind : {"search"}, tasks : Lists(SearchUniverse), filters : SearchInputs,
          sortBy : {"createdAt"}, sortOrder : {"desc"}, at : {0}]
    \cup [kind : {"sort"}, tasks : Lists(SortUniverse), filters : {NoFilters},
          sortBy : SortKeys, sortOrder : SortOrders, at : {0}]
    \cup [kind : {"rank"}, tasks : Lists(RankUniverse), filters : {NoFilters},
          sortBy : {"priority"}, sortOrder : SortOrders, at : {0}]
    \cup [kind : {"due"}, tasks : Lists(DueUniverse), filters : {NoFilters},
          sortBy : {"dueDate"}, sortOrder : SortOrders, at : {0}]
    \cup [kind : {"stats"}, tasks : Lists(StatsUniverse), filters : {NoFilters},
          sortBy : {"createdAt"}, sortOrder : {"desc"}, at : CallTimes]

NoOutput == [op |-> "none", result |-> <<>>]

PureInit ==
    pin \in PureInputs /\ pout = NoOutput /\ ServerInit /\ clientIdle /\ dashIdle /\ limiterIdle

PureOnly == UNCHANGED <<serverVars, clientVars, dash, limiter>>

\* a call filterTasks(tasks, filters); the callback only reads the tasks
CallFilterTasks ==
    /\ pout.op = "none"
    /\ pin.kind \in {"filter", "search"}
    /\ pout' = [op |-> "filterTasks", result |-> filterTasks(pin.tasks, pin.filters)]
    /\ pin' = pin

\* a call sortTasks(tasks, sortBy, sortOrder); the sort is done on a copy
CallSortTasks ==
    /\ pout.op = "none"
    /\ pin.kind \in {"sort", "rank", "due"}
    /\ \E sortedTasks \in sortTasks(pin.tasks, pin.sortBy, pin.sortOrder) :
          pout' = [op |-> "sortTasks", result |-> sortedTasks]
    /\ pin' = pin

\* a call getTaskStats(tasks)
CallGetTaskStats ==
    /\ pout.op = "none"
    /\ pin.kind = "stats"
    /\ pout' = [op |-> "getTaskStats", result |-> getTaskStats(pin.tasks, pin.at)]
    /\ pin' = pin

PureNext ==
    \/ CallFilterTasks /\ PureOnly
    \/ CallSortTasks /\ PureOnly
    \/ CallGetTaskStats /\ PureOnly

PureSpec == PureInit /\ [][PureNext]_vars

----------------------------------------------------------------------------
(* Properties of the client utilities *)

Range(seq) == {seq[i] : i \in 1..Len(seq)}

\* the elements of a list at a set of positions, in the order of the list
RECURSIVE Pick(_, _)
Pick(seq, positions) ==
    IF seq = <<>> THEN <<>>
    ELSE LET front == Pick(SubSeq(seq, 1, Len(seq) - 1), positions)
         IN  IF Len(seq) \in positions THEN Append(front, seq[Len(seq)]) ELSE front

\* the status, category and priority filters as the claim words them
PassesStatus(task, status) ==
    /\ status = pending => ~task.isDone
    /\ status = completed => task.isDone
PassesEqual(value, filter) == filter \in {<<>>, all} \/ value = filter

\* C5: filterTasks returns exactly the tasks that pass the status filter,
\* the category filter, the priority filter and the search at once, in input
\* order and each once; a filter that is 'all' or empty removes nothing, and
\* with no filter and no search the result is the input list
C5_FilterExact ==
    pout.op = "filterTasks" =>
        LET searched == filterTasks(pin.tasks, [NoFilters EXCEPT !.search = pin.filters.search])
            passing == {i \in 1..Len(pin.tasks) :
                          /\ PassesStatus(pin.tasks[i], pin.filters.status)
                          /\ PassesEqual(pin.tasks[i].category, pin.filters.category)
                          /\ PassesEqual(pin.tasks[i].priority, pin.filters.priority)
                          /\ pin.tasks[i] \in Range(searched)}
        IN  /\ pout.result = Pick(pin.tasks, passing)
            /\ pin.filters.search = <<>> => searched = pin.tasks
            /\ (/\ pin.filters.status \in {<<>>, all}
                /\ pin.filters.category \in {<<>>, all}
                /\ pin.filters.priority \in {<<>>, all}
                /\ pin.filters.search = <<>>) => pout.result = pin.tasks

\* a status filter, a category filter and a search are active at once: of
\* three tasks the first and the last are kept, in that order
C5_Witness ==
    /\ pout.op = "filterTasks"
    /\ pin.filters = [status |-> pending, category |-> work, priority |-> all,
                      search |-> <<"a">>]
    /\ Len(pin.tasks) = 3
    /\ pout.result = <<pin.tasks[1], pin.tasks[3]>>

\* the search term, without case, is a substring of the title, of the
\* description or of one of the tags
TermFound(task, term) ==
    \/ "title" \in task.has /\ includes(toLowerCase(task.title), toLowerCase(term))
    \/ "description" \in task.has
          /\ includes(toLowerCase(task.description), toLowerCase(term))
    \/ "tags" \in task.has
          /\ \E i \in 1..Len(task.tags) :
                includes(toLowerCase(task.tags[i]), toLowerCase(term))

\* C6: with a non-empty search term filterTasks keeps a task if and only if
\* the term, without case, is a substring of its title, its description or
\* one of its tags; a task without title, description and tags is never kept
C6_SearchIff ==
    (pout.op = "filterTasks" /\ pin.kind = "search") =>
        \A i \in 1..Len(pin.tasks) :
            /\ pin.tasks[i] \in Range(pout.result)
                  <=> TermFound(pin.tasks[i], pin.filters.search)
            /\ pin.tasks[i].has \cap {"title", "description", "tags"} = {}
                  => pin.tasks[i] \notin Range(pout.result)

\* the part of C6 that holds: a task is kept when the term is found in one
\* of the three, and a task with none of them is never kept
C6_SearchSound ==
    (pout.op = "filterTasks" /\ pin.kind = "search") =>
        \A i \in 1..Len(pin.tasks) :
            /\ TermFound(pin.tasks[i], pin.filters.search)
                  => pin.tasks[i] \in Range(pout.result)
            /\ pin.tasks[i].has \cap {"title", "description", "tags"} = {}
                  => pin.tasks[i] \notin Range(pout.result)

\* the keys of C7, each with its own order: times and dates as numbers,
\* the title without case and the category as strings, the priority by rank
NotAfter(a, b, sortBy) ==
    IF sortBy = "createdAt" THEN a.createdAt <= b.createdAt
    ELSE IF sortBy = "updatedAt" THEN a.updatedAt <= b.updatedAt
    ELSE IF sortBy = "title"
         THEN LET titleA == IF "title" \in a.has THEN toLowerCase(a.title) ELSE <<>>
                  titleB == IF "title" \in b.has THEN toLowerCase(b.title) ELSE <<>>
              IN  titleA = titleB \/ StrLT(titleA, titleB)
    ELSE IF sortBy = "priority"
         THEN LET rank(task) == IF PriorityOf(task) = low THEN 1
                                ELSE IF PriorityOf(task) = high THEN 3
                                ELSE IF PriorityOf(task) = urgent THEN 4
                                ELSE 2
              IN  rank(a) <= rank(b)
    ELSE IF sortBy = "dueDate"
         THEN \/ b.dueDate = NoDate
              \/ a.dueDate # NoDate /\ a.dueDate[1] <= b.dueDate[1]
    ELSE a.category = b.category \/ StrLT(a.category, b.category)

\* C7: sortTasks returns a permutation of the input list and leaves the
\* input as it was; every adjacent pair of the result is non-decreasing by
\* the key for 'asc' and non-increasing for 'desc', which is the default
C7_Sorted ==
    [][(pout.op = "none" /\ pout'.op = "sortTasks" /\ pin.kind = "sort") =>
          /\ pin' = pin
          /\ Len(pout'.result) = Len(pin.tasks)
          /\ Range(pout'.result) = Range(pin.tasks)
          /\ \A i \in 1..(Len(pout'.result) - 1) :
                IF pin.sortOrder = "asc"
                THEN NotAfter(pout'.result[i], pout'.result[i + 1], pin.sortBy)
                ELSE NotAfter(pout'.result[i + 1], pout'.result[i], pin.sortBy)]_vars

\* three tasks given in ascending title order come back reversed when no
\* order is passed
C7_Witness ==
    /\ pout.op = "sortTasks" /\ pin.kind = "sort"
    /\ pin.sortBy = "title" /\ pin.sortOrder = "undefined"
    /\ Len(pin.tasks) = 3
    /\ pin.tasks[1].title = <<"a">> /\ pin.tasks[3].title = <<"b">>
    /\ pout.result = <<pin.tasks[3], pin.tasks[2], pin.tasks[1]>>

\* the rank C8 gives a priority
Rank(task) ==
    IF PriorityOf(task) = low THEN 1
    ELSE IF PriorityOf(task) = medium THEN 2
    ELSE IF PriorityOf(task) = high THEN 3
    ELSE IF PriorityOf(task) = urgent THEN 4
    ELSE 2

\* C8: sorted by priority in ascending order, the tasks are in the order of
\* the rank low = 1, medium = 2, high = 3, urgent = 4, where a priority that
\* is missing or not one of the four values ranks 2
C8_PriorityRank ==
    (pout.op = "sortTasks" /\ pin.kind = "rank" /\ pin.sortOrder = "asc") =>
        \A i, j \in 1..Len(pout.result) :
            i < j => Rank(pout.result[i]) <= Rank(pout.result[j])

\* the part of C8 that holds: the same without the inherited property name
C8_OwnOrUnknown ==
    (/\ pout.op = "sortTasks" /\ pin.kind = "rank" /\ pin.sortOrder = "asc"
     /\ \A i \in 1..Len(pin.tasks) : pin.tasks[i].priority # constructor) =>
        \A i, j \in 1..Len(pout.result) :
            i < j => Rank(pout.result[i]) <= Rank(pout.result[j])

----------------------------------------------------------------------------
(* The life of one task: one user, one task, and time *)

tokA == [kind |-> "valid", user |-> "A"]

LifeCreateBodies ==
    {[EmptyBody EXCEPT !.has = {"title", "category"},
                       !.title = ta, !.category = work],
     [EmptyBody EXCEPT !.has = {"title", "category", "dueDate"},
                       !.title = ta, !.category = work, !.dueDate = <<1>>]}

LifeUpdateBodies ==
    {[EmptyBody EXCEPT !.has = {"isDone"}, !.isDone = TRUE],
     [EmptyBody EXCEPT !.has = {"isDone"}, !.isDone = FALSE],
     [EmptyBody EXCEPT !.has = {"title"}, !.title = tb],
     [EmptyBody EXCEPT !.has = {"dueDate"}, !.dueDate = <<MaxTime + 1>>]}

LifeSubTaskBodies == {[EmptyBody EXCEPT !.has = {"title"}, !.title = tb]}

LifeNext ==
    \/ Tick /\ ServerOnly
    \/ \E body \in LifeCreateBodies :
          createTask(Req("tasks", "POST", <<>>, tokA), body, "id1") /\ ServerOnly
    \/ \E body \in LifeUpdateBodies :
          updateTask(Req("tasks", "PATCH", <<"id1">>, tokA), body) /\ ServerOnly
    \/ toggleTask(Req("tasks", "PATCH", <<"id1", "toggle">>, tokA)) /\ ServerOnly
    \/ \E body \in LifeSubTaskBodies :
          addSubTask(Req("tasks", "POST", <<"id1", "subtasks">>, tokA), body)
              /\ ServerOnly
    \/ deleteTask(Req("tasks", "DELETE", <<"id1">>, tokA)) /\ ServerOnly

LifeSpec == Init /\ [][LifeNext]_vars

----------------------------------------------------------------------------
(* Properties of the life of a task *)

\* a toggle request for a stored task of the requester is answered
ToggledOwn ==
    /\ Served
    /\ res'.handler = "toggleTask"
    /\ res' # res
    /\ res'.req.path[1] \in DOMAIN tasks
    /\ tasks[res'.req.path[1]].userId = res'.user

\* the task before and after differ in nothing a user can edit but isDone
SameButDone(before, after) ==
    /\ after.title = before.title
    /\ after.description = before.description
    /\ after.category = before.category
    /\ after.priority = before.priority
    /\ after.dueDate = before.dueDate
    /\ after.tags = before.tags
    /\ after.subTasks = before.subTasks

\* C9: toggleTask on a task of the requester flips isDone and changes no
\* other user-editable field, so that two toggles in a row restore isDone;
\* the message says 'completed' exactly when the resulting isDone is true
C9_ToggleFlips ==
    [][ToggledOwn =>
          LET id == res'.req.path[1]
          IN  /\ id \in DOMAIN tasks'
              /\ tasks'[id].isDone = ~tasks[id].isDone
              /\ SameButDone(tasks[id], tasks'[id])
              /\ res'.message = "Task marked as completed" <=> tasks'[id].isDone]_vars

\* the part of C9 that holds: the same for a toggle whose save passes
\* validation, which is when the stored due date is absent or in the future
C9_ToggleFlipsWhenValid ==
    [][(ToggledOwn /\ dueDateValidator(tasks[res'.req.path[1]].dueDate, now)) =>
          LET id == res'.req.path[1]
          IN  /\ res'.status = 200
              /\ id \in DOMAIN tasks'
              /\ tasks'[id].isDone = ~tasks[id].isDone
              /\ SameButDone(tasks[id], tasks'[id])
              /\ res'.message = "Task marked as completed" <=> tasks'[id].isDone]_vars

\* C10: a stored task has completedAt exactly when it is done; a save that
\* makes it done sets completedAt to the time of the save, a save that makes
\* it not done resets completedAt to null, and a save that leaves it done
\* leaves completedAt as it was
C10_CompletedAt ==
    [][/\ \A id \in DOMAIN tasks' :
             tasks'[id].completedAt # NoDate <=> tasks'[id].isDone
       /\ \A id \in DOMAIN tasks \cap DOMAIN tasks' :
             /\ (~tasks[id].isDone /\ tasks'[id].isDone)
                   => tasks'[id].completedAt = <<now>>
             /\ (tasks[id].isDone /\ ~tasks'[id].isDone)
                   => tasks'[id].completedAt = NoDate
             /\ (tasks[id].isDone /\ tasks'[id].isDone)
                   => tasks'[id].completedAt = tasks[id].completedAt]_vars

\* a task completed at time 0 got a subtask and is still done at time 1,
\* with the completion time it had
C10_Witness ==
    /\ now = 1
    /\ res.handler = "addSubTask" /\ res.status = 201
    /\ "id1" \in DOMAIN tasks
    /\ tasks["id1"].isDone
    /\ tasks["id1"].completedAt = <<0>>
    /\ tasks["id1"].subTasks # <<>>

----------------------------------------------------------------------------
(* Properties of getTaskStats *)

\* C11: getTaskStats returns total = number of tasks, completed = number of
\* done tasks, pending = total - completed, overdue = number of tasks that
\* are not done and due before the current time, so that completed + pending
\* = total and overdue <= pending; completionRate is 0 for the empty list
\* and else the percentage completed / total rounded to the nearest integer,
\* within 0..100
C11_Stats ==
    pout.op = "getTaskStats" =>
        LET st == pout.result
            n == Len(pin.tasks)
            doneAt == {i \in 1..n : pin.tasks[i].isDone}
            lateAt == {i \in 1..n : /\ ~pin.tasks[i].isDone
                                    /\ pin.tasks[i].dueDate # NoDate
                                    /\ pin.tasks[i].dueDate[1] < pin.at}
        IN  /\ st.total = n
            /\ st.completed = Cardinality(doneAt)
            /\ st.pending = st.total - st.completed
            /\ st.overdue = Cardinality(lateAt)
            /\ st.completed + st.pending = st.total
            /\ st.overdue <= st.pending
            /\ n = 0 => st.completionRate = 0
            /\ st.completionRate \in 0..100
            /\ n > 0 => /\ 2 * (st.completionRate * n - 100 * st.completed) <= n
                        /\ 2 * (100 * st.completed - st.completionRate * n) <= n

\* of three tasks two are done, one of them past its due date, and the one
\* that is not done is overdue: the rate is 67
C11_Witness ==
    /\ pout.op = "getTaskStats"
    /\ pout.result = [total |-> 3, completed |-> 2, pending |-> 1, overdue |-> 1,
                      completionRate |-> 67]
    /\ \E i \in 1..3 : pin.tasks[i].isDone /\ isOverdue(pin.tasks[i].dueDate, pin.at)

----------------------------------------------------------------------------
(* Properties of subtasks and of the overdue query *)

\* a subtask request has been answered
SubTaskAnswered == Served /\ res'.handler = "addSubTask"

\* the title of the request body is missing or holds nothing but blanks
BlankTitle(body) ==
    \/ "title" \notin body.has
    \/ \A i \in 1..Len(body.title) : body.title[i] = " "

\* the task of the request is stored and belongs to the requester
OwnTarget ==
    /\ res'.req.path[1] \in DOMAIN tasks
    /\ tasks[res'.req.path[1]].userId = res'.user

\* the task got one more subtask, at the end, with the trimmed title
AppendedOne ==
    LET id == res'.req.path[1]
    IN  /\ res'.status = 201
        /\ id \in DOMAIN tasks'
        /\ Len(tasks'[id].subTasks) = Len(tasks[id].subTasks) + 1
        /\ SubSeq(tasks'[id].subTasks, 1, Len(tasks[id].subTasks)) = tasks[id].subTasks
        /\ tasks'[id].subTasks[Len(tasks'[id].subTasks)]
              = [title |-> trim(res'.body.title), isDone |-> FALSE]

\* C12: addSubTask with a non-blank title on a task of the requester appends
\* exactly one subtask, with the trimmed title and isDone false, behind the
\* existing subtasks, and answers 201; a missing or blank title answers 400
\* 'Subtask title is required' and changes no task
C12_AppendsOne ==
    [][SubTaskAnswered =>
          /\ BlankTitle(res'.body) =>
                /\ res'.status = 400
                /\ res'.message = "Subtask title is required"
                /\ tasks' = tasks
          /\ (~BlankTitle(res'.body) /\ OwnTarget) => AppendedOne]_vars

\* the part of C12 that holds: the same, for the append, when the stored due
\* date of the task is absent or in the future
C12_AppendsOneWhenValid ==
    [][SubTaskAnswered =>
          /\ BlankTitle(res'.body) =>
                /\ res'.status = 400
                /\ res'.message = "Subtask title is required"
                /\ tasks' = tasks
          /\ (/\ ~BlankTitle(res'.body) /\ OwnTarget
              /\ dueDateValidator(tasks[res'.req.path[1]].dueDate, now))
                => AppendedOne]_vars

----------------------------------------------------------------------------
(* The overdue query: two users, tasks with different due dates, and time
   running past the latest of them *)

OverdueBodies ==
    {[EmptyBody EXCEPT !.has = {"title", "category"} \cup (IF due = NoDate THEN {} ELSE {"dueDate"}),
                       !.title = ta, !.category = work, !.dueDate = due] :
        due \in {NoDate, <<1>>, <<2>>}}

\* time passes, up to one step beyond the latest due date
OverdueTick ==
    /\ now < MaxTime + 1
    /\ now' = now + 1
    /\ UNCHANGED <<tasks, usedIds, res>>

OverdueNext ==
    \/ OverdueTick /\ ServerOnly
    \/ \E req \in ReqCreateTask, body \in OverdueBodies, id \in ObjectIds :
          createTask(req, body, id) /\ ServerOnly
    \/ \E req \in ReqToggleTask : toggleTask(req) /\ ServerOnly
    \/ \E req \in ReqOverdue : getOverdueTasks(req) /\ ServerOnly

OverdueSpec == Init /\ [][OverdueNext]_vars

\* C13: GET /tasks/overdue returns exactly the tasks of the requester that
\* are not done and have a due date before the current time, each once, in
\* ascending order of the due date, with count = the number returned; no
\* done task and no task without a due date is among them
C13_Overdue ==
    [][(Served /\ res'.handler = "getOverdueTasks") =>
          LET late == {i \in DOMAIN tasks :
                          /\ tasks[i].userId = res'.req.tok.user
                          /\ ~tasks[i].isDone
                          /\ tasks[i].dueDate # NoDate
                          /\ tasks[i].dueDate[1] < now}
              got == res'.tasks
          IN  /\ res'.status = 200
              /\ Len(got) = Cardinality(late)
              /\ {got[i].id : i \in 1..Len(got)} = late
              /\ \A i \in 1..Len(got) : got[i] = tasks[got[i].id]
              /\ \A i \in 1..(Len(got) - 1) : got[i].dueDate[1] <= got[i + 1].dueDate[1]
              /\ res'.meta.count = Len(got)
              /\ \A i \in 1..Len(got) : ~got[i].isDone /\ got[i].dueDate # NoDate]_vars

\* two overdue tasks of the requester come back in the order of their due
\* dates, which is the reverse of the order of their creation
C13_Witness ==
    /\ res.handler = "getOverdueTasks"
    /\ Len(res.tasks) = 2
    /\ res.tasks[1].id = "id2" /\ res.tasks[1].dueDate = <<1>>
    /\ res.tasks[2].id = "id1" /\ res.tasks[2].dueDate = <<2>>
    /\ res.meta.count = 2

\* one user has a done task with a passed due date and one without a due
\* date, and the query returns nothing
C13_WitnessNone ==
    /\ res.handler = "getOverdueTasks"
    /\ res.tasks = <<>>
    /\ \E i \in DOMAIN tasks :
          /\ tasks[i].userId = res.user /\ tasks[i].isDone
          /\ tasks[i].dueDate # NoDate /\ tasks[i].dueDate[1] < now

----------------------------------------------------------------------------
(* The Dashboard's debounced search: helpers.js debounce and the
   debouncedSearch of pages/Dashboard *)

\* debounce(..., 300) in the Dashboard, in milliseconds
DashboardWait == 300

\* the browser clock advances in steps of a third of the wait, up to MaxTicks
\* steps
MaxTicks == 7
Quantum == DashboardWait \div 3
MaxClock == MaxTicks * Quantum

\* the terms a user types
SearchTerms == {<<"a">>, <<"a", "b">>}

NoTimer == [due |-> -1, args |-> <<>>]
NoCall == [at |-> -1, args |-> <<>>]

\* the Dashboard after its first render, with the closure of debounce:
\* timeout is the timer the closure variable refers to, pending the timers
\* that are set and have not run; lastCall and sinceCall record the last
\* call of the debounced function and the invocations of func since then
DashboardInit ==
    [clock |-> 0, search |-> <<>>, timeout |-> NoTimer, pending |-> {},
     lastCall |-> NoCall, sinceCall |-> 0]

\* the function debounce returns, without its clearTimeout
executedFunction_noClear(args) ==
    /\ dash.clock + DashboardWait <= MaxClock
    /\ LET timer == [due |-> dash.clock + DashboardWait, args |-> args]
       IN  dash' = [dash EXCEPT !.pending = @ \cup {timer},
                                !.timeout = timer,
                                !.lastCall = [at |-> dash.clock, args |-> args],
                                !.sinceCall = 0]

\* the function debounce returns, called with args by the search input's
\* onChange: clearTimeout(timeout); timeout = setTimeout(later, wait)
executedFunction(args) ==
    /\ dash.clock + DashboardWait <= MaxClock
    /\ LET timer == [due |-> dash.clock + DashboardWait, args |-> args]
       IN  dash' = [dash EXCEPT !.pending = (@ \ {dash.timeout}) \cup {timer},
                                !.timeout = timer,
                                !.lastCall = [at |-> dash.clock, args |-> args],
                                !.sinceCall = 0]

\* later(), run by the event loop for a timer that is due: clearTimeout and
\* func(...args), which here is setFilters(prev => ({...prev, search}))
later(timer) ==
    /\ timer \in dash.pending
    /\ dash.clock >= timer.due
    /\ dash' = [dash EXCEPT !.pending = @ \ {timer, dash.timeout},
                            !.search = timer.args,
                            !.sinceCall = IF @ < 2 THEN @ + 1 ELSE @]

\* time passes in the browser
AdvanceClock ==
    /\ dash.clock < MaxClock
    /\ dash' = [dash EXCEPT !.clock = @ + Quantum]

DashOnly == UNCHANGED <<serverVars, pureVars, clientVars, limiter>>

DebounceInit ==
    dash = DashboardInit /\ ServerInit /\ pureIdle /\ clientIdle /\ limiterIdle

DebounceNext ==
    \/ \E args \in SearchTerms : executedFunction(args) /\ DashOnly
    \/ \E timer \in dash.pending : later(timer) /\ DashOnly
    \/ AdvanceClock /\ DashOnly

\* a timer that is due is run by the event loop, and time does not stop
DebounceSpec ==
    /\ DebounceInit
    /\ [][DebounceNext]_vars
    /\ WF_vars(\E timer \in dash.pending : later(timer) /\ DashOnly)
    /\ WF_vars(AdvanceClock /\ DashOnly)

\* func has been invoked in this step
Invoked == dash'.sinceCall > dash.sinceCall

\* C14: func is invoked only when the wait has passed since the last call,
\* with the arguments of that call, and once per burst of calls; the search
\* filter changes only by such an invocation, to the last typed term; and a
\* call is always followed by the invocation for the last call
C14_Debounce ==
    /\ [][/\ Invoked =>
                /\ dash.clock >= dash.lastCall.at + DashboardWait
                /\ dash'.search = dash.lastCall.args
                /\ dash'.sinceCall = 1
          /\ dash'.search # dash.search => Invoked]_vars
    /\ (dash.pending # {}) ~>
           (dash.pending = {} /\ dash.sinceCall = 1 /\ dash.search = dash.lastCall.args)

\* a burst of three calls, a third of the wait apart, has ended in one
\* invocation with the term of the third call, the wait after that call
C14_Witness ==
    /\ dash.lastCall = [at |-> 2 * Quantum, args |-> <<"a", "b">>]
    /\ dash.clock = 2 * Quantum + DashboardWait
    /\ dash.sinceCall = 1
    /\ dash.search = <<"a", "b">>
    /\ dash.pending = {}

----------------------------------------------------------------------------
(* The rate limiter of the auth router: one rateLimit() instance, mounted
   with router.use on /register and on /login, keyed by req.ip.  The clock
   of this specification advances by half a window per tick. *)

windowMs == 15 * 60 * 1000
limiterMax == 5
TooManyMessage == "Too many authentication attempts, please try again later."

MaxOver == 1
HalfWindow == windowMs \div 2
IPs == {"ip1", "ip2"}

\* the limiter's store.  perKey tells the two stores the library has
\* shipped apart: one window per client, opened by the client's first
\* request, or one window for all clients, reset every windowMs since the
\* limiter was made.  last is history: the client of the latest request.
LimiterInit(perKey) ==
    [perKey |-> perKey,
     hits |-> [ip \in IPs |-> 0],
     resetTime |-> [ip \in IPs |-> IF perKey THEN 0 ELSE windowMs],
     last |-> "-"]

\* the store at time t, before the request is counted: expired windows
\* are closed
expire(l, ip, t) ==
    IF l.perKey
    THEN IF t >= l.resetTime[ip]
         THEN [l EXCEPT !.hits[ip] = 0, !.resetTime[ip] = t + windowMs]
         ELSE l
    ELSE IF t >= l.resetTime[ip]
         THEN [l EXCEPT !.hits = [i \in IPs |-> 0],
                        !.resetTime = [i \in IPs |->
                                          ((t \div windowMs) + 1) * windowMs]]
         ELSE l

\* store.increment(key)
increment(l, ip, t) ==
    [expire(l, ip, t) EXCEPT !.hits[ip] = @ + 1, !.last = ip]

\* the limiter is among the functions Express runs for the request
Limited(req) ==
    LET stack == Stack(Routes(req.router), req)
    IN  \E i \in DOMAIN stack : stack[i] = "authLimiter"

\* the limiter ends the request: totalHits > max
authLimiter(req, ip) ==
    /\ Limited(req)
    /\ limiter.hits[ip] < limiterMax + MaxOver
    /\ LET l == increment(limiter, ip, now * HalfWindow)
       IN  /\ l.hits[ip] > limiterMax
           /\ limiter' = l
    /\ res' = Response(req, EmptyBody, "none", 429, TooManyMessage, <<>>, NoMeta)
    /\ UNCHANGED <<now, tasks, usedIds>>

\* the limiter calls next(), or is not on the request's stack
passLimiter(req, ip) ==
    IF Limited(req)
    THEN LET l == increment(limiter, ip, now * HalfWindow)
         IN  /\ l.hits[ip] <= limiterMax
             /\ limiter' = l
    ELSE limiter' = [limiter EXCEPT !.last = ip]

LimiterReq(method, path, kind) ==
    [router |-> "auth", method |-> method, path |-> <<path>>,
     tok |-> [kind |-> kind, user |-> IF kind = "valid" THEN "A" ELSE "-"]]

LimiterRequests ==
    {LimiterReq("POST", "register", "missing"),
     LimiterReq("POST", "login", "missing"),
     LimiterReq("GET", "login", "missing"),
     LimiterReq("GET", "me", "valid"),
     LimiterReq("GET", "me", "missing"),
     LimiterReq("PUT", "profile", "valid"),
     LimiterReq("POST", "verify", "valid")}

LimiterOnly == UNCHANGED <<pureVars, clientVars, dash>>

LimiterSpecInit ==
    /\ ServerInit /\ pureIdle /\ clientIdle /\ dashIdle
    /\ \E perKey \in BOOLEAN : limiter = LimiterInit(perKey)

LimiterNext ==
    \/ Tick /\ UNCHANGED limiter /\ LimiterOnly
    \/ \E req \in LimiterRequests, ip \in IPs :
          authLimiter(req, ip) /\ LimiterOnly
    \/ \E req \in LimiterRequests, ip \in IPs, ok \in BOOLEAN :
          register(req, "A", ok) /\ passLimiter(req, ip) /\ LimiterOnly
    \/ \E req \in LimiterRequests, ip \in IPs, ok \in BOOLEAN :
          login(req, "A", ok) /\ passLimiter(req, ip) /\ LimiterOnly
    \/ \E req \in LimiterRequests, ip \in IPs :
          profileHandler(req) /\ passLimiter(req, ip) /\ LimiterOnly
    \/ \E req \in LimiterRequests, ip \in IPs :
          unauthorized(req) /\ passLimiter(req, ip) /\ LimiterOnly
    \/ \E req \in LimiterRequests, ip \in IPs :
          noRoute(req) /\ passLimiter(req, ip) /\ LimiterOnly

LimiterSpec == LimiterSpecInit /\ [][LimiterNext]_vars

\* the step ends a request of client ip
Answered(ip) == limiter'.last = ip /\ (limiter' # limiter \/ res' # res)

UnderLimiter(path) == path \in {<<"register">>, <<"login">>}

\* C15: a request of an IP reaches the register or the login handler only
\* as one of the first 5 requests of that IP to /register or /login in
\* the window, so at most 5 reach them per window; every further request
\* of that IP to /register or /login in the window is answered 429 with
\* the limiter's message; a request to /me, /profile or /verify is
\* neither counted nor refused by the limiter.
C15_RateLimit ==
    [][\A ip \in IPs : Answered(ip) =>
          /\ UnderLimiter(res'.req.path) =>
                /\ limiter'.hits[ip] =
                      expire(limiter, ip, now * HalfWindow).hits[ip] + 1
                /\ limiter'.hits[ip] > limiterMax =>
                      /\ res'.status = 429
                      /\ res'.message = TooManyMessage
                      /\ res'.handler = "none"
          /\ res'.handler \in {"register", "login"} =>
                /\ UnderLimiter(res'.req.path)
                /\ limiter'.hits[ip] <= limiterMax
          /\ ~UnderLimiter(res'.req.path) =>
                /\ limiter'.hits = limiter.hits
                /\ res'.status # 429]_vars

\* the sixth login of a client in a window has been refused
C15_Witness ==
    /\ limiter # <<>>
    /\ \E ip \in IPs : limiter.last = ip /\ limiter.hits[ip] = limiterMax + 1
    /\ res.status = 429
    /\ res.req.path = <<"login">>

\* a client refused in one window is served again in the next one
C15_WitnessNextWindow ==
    /\ limiter # <<>>
    /\ \E ip \in IPs : limiter.last = ip /\ limiter.hits[ip] = 1
    /\ now >= 2
    /\ res.handler = "login"

----------------------------------------------------------------------------
(* services/api.js: the request interceptor of the axios instance *)

Slash(word) == <<"/">> \o word
authSeg == Slash(<<"a", "u", "t", "h">>)
tasksSeg == Slash(<<"t", "a", "s", "k", "s">>)
registerSeg == Slash(<<"r", "e", "g", "i", "s", "t", "e", "r">>)
loginSeg == Slash(<<"l", "o", "g", "i", "n">>)
healthSeg == Slash(<<"h", "e", "a", "l", "t", "h">>)
categorySeg == Slash(<<"c", "a", "t", "e", "g", "o", "r", "y">>)

publicRoutes == {authSeg \o registerSeg, authSeg \o loginSeg, healthSeg}

NoHeader == "undefined"

\* the interceptor that does not look at the URL
requestInterceptor_everyRoute(config, storage) ==
    IF storage.token # NoValue
    THEN [config EXCEPT !.headers.Authorization = "Bearer " \o storage.token]
    ELSE config

\* the fulfilled handler of api.interceptors.request.use: config.url may be
\* undefined, localStorage.getItem gives null for a missing item
requestInterceptor(config, storage) ==
    LET isPublicRoute ==
            \E route \in publicRoutes : config.hasUrl /\ includes(config.url, route)
    IN  IF ~isPublicRoute /\ storage.token # NoValue
        THEN [config EXCEPT !.headers.Authorization = "Bearer " \o storage.token]
        ELSE config

\* the URLs the functions of authAPI, tasksAPI and healthCheck ask for,
\* for two task ids and four categories
IdSegs2 == {Slash(<<"i", "d", "1">>), Slash(<<"i", "d", "2">>)}
CategorySegs ==
    {Slash(<<"w", "o", "r", "k">>), Slash(<<"o", "t", "h", "e", "r">>),
     healthSeg, loginSeg}
ApiUrls ==
    {authSeg \o registerSeg, authSeg \o loginSeg, authSeg \o Slash(<<"m", "e">>),
     authSeg \o Slash(<<"p", "r", "o", "f", "i", "l", "e">>),
     authSeg \o Slash(<<"v", "e", "r", "i", "f", "y">>),
     tasksSeg, tasksSeg \o Slash(<<"o", "v", "e", "r", "d", "u", "e">>), healthSeg}
    \cup {tasksSeg \o id : id \in IdSegs2}
    \cup {tasksSeg \o id \o Slash(<<"t", "o", "g", "g", "l", "e">>) : id \in IdSegs2}
    \cup {tasksSeg \o id \o Slash(<<"s", "u", "b", "t", "a", "s", "k", "s">>) :
            id \in IdSegs2}
    \cup {tasksSeg \o categorySeg \o c : c \in CategorySegs}

\* the configs axios hands to the interceptor: no caller sets Authorization
Configs ==
    [hasUrl : {TRUE}, url : ApiUrls, headers : {[Authorization |-> NoHeader]}]
    \cup {[hasUrl |-> FALSE, url |-> <<>>, headers |-> [Authorization |-> NoHeader]]}

NoConfig == [hasUrl |-> FALSE, url |-> <<>>, headers |-> [Authorization |-> "-"]]

RequestInit ==
    /\ ls \in [token : {NoValue} \cup TokenStrings, user : {NoValue}]
    /\ pin = NoConfig /\ pout = NoConfig
    /\ auth = <<>> /\ location = "/" /\ flows = <<>>
    /\ ServerInit /\ dashIdle /\ limiterIdle

\* a call of the axios instance: the interceptor runs on its config
Request(config) ==
    /\ pin' = config
    /\ pout' = requestInterceptor(config, ls)
    /\ ls' = ls

\* localStorage.setItem('token', token) or removeItem('token')
SetToken(token) ==
    /\ ls' = [ls EXCEPT !.token = token]
    /\ UNCHANGED <<pin, pout>>

RequestOnly == UNCHANGED <<serverVars, auth, location, flows, dash, limiter>>

RequestNext ==
    \/ \E config \in Configs : Request(config) /\ RequestOnly
    \/ \E token \in {NoValue} \cup TokenStrings : SetToken(token) /\ RequestOnly

RequestSpec == RequestInit /\ [][RequestNext]_vars

Requested == ls' = ls /\ pin' \in Configs

IsPublic(url) ==
    \/ includes(url, authSeg \o registerSeg)
    \/ includes(url, authSeg \o loginSeg)
    \/ includes(url, healthSeg)

\* C16: the request leaves the interceptor with 'Authorization: Bearer
\* <token>' exactly when its URL contains none of '/auth/register',
\* '/auth/login', '/health' and localStorage holds a token; otherwise it
\* carries no Authorization header, so neither a public request nor a
\* request made with no stored token carries one.
C16_Bearer ==
    [][Requested =>
         LET private == ~(pin'.hasUrl /\ IsPublic(pin'.url))
             stored == ls.token # NoValue
         IN  /\ (private /\ stored) =>
                   pout'.headers.Authorization = "Bearer " \o ls.token
             /\ ~(private /\ stored) =>
                   pout'.headers.Authorization = NoHeader
             /\ pout'.url = pin'.url]_vars

\* a task request has left with the stored token
C16_Witness ==
    /\ pin # <<>> /\ ls # <<>> /\ "token" \in DOMAIN ls
    /\ pin \in Configs
    /\ pin.url = tasksSeg
    /\ pout.headers.Authorization = "Bearer t1"

\* a login request has left without the stored token
C16_WitnessPublic ==
    /\ pin # <<>> /\ ls # <<>> /\ "token" \in DOMAIN ls
    /\ pin \in Configs
    /\ pin.url = authSeg \o loginSeg
    /\ ls.token = "t1"
    /\ pout.headers.Authorization = NoHeader

----------------------------------------------------------------------------
(* Properties of the auth context under interleaving *)

\* C17: in every reachable state of the auth context isAuthenticated is
\* true exactly when user is non-null, and user is non-null only if token
\* is non-null.
C17_AuthConsistent ==
    /\ auth.isAuthenticated <=> auth.user # NoValue
    /\ auth.user # NoValue => auth.token # NoValue

\* the part of C17 that holds: an authenticated state has a user and a
\* token
C17_AuthenticatedHasUser ==
    auth.isAuthenticated => (auth.user # NoValue /\ auth.token # NoValue)

\* the state C17 excludes, as UPDATE_USER leaves it when the answer to a
\* profile call arrives in a logged-out state: user is set, token and
\* isAuthenticated are not
C17_StaleUser ==
    /\ flows.last = [call |-> "updateProfile", result |-> "returned"]
    /\ auth.user # NoValue
    /\ auth.token = NoValue
    /\ ~auth.isAuthenticated
    /\ ls.token = NoValue

----------------------------------------------------------------------------
(* The Dashboard's bulk delete against the task API.  The page's tasks and
   selectedTasks are kept as sets of task ids; one handleBulkDelete runs at
   a time; the user has a second session that deletes tasks too. *)

\* selected is the selectedTasks the running handler closed over, inflight
\* the delete requests the server has not answered, answers the statuses
\* of those it has
BulkInit ==
    [tasks |-> {}, selectedTasks |-> {}, selected |-> {}, inflight |-> {},
     answers |-> {}, bulk |-> "idle"]

BulkSpecInit ==
    dash = BulkInit /\ ServerInit /\ pureIdle /\ clientIdle /\ limiterIdle

BulkOnly == UNCHANGED <<pureVars, clientVars, limiter>>

\* the user creates a task elsewhere
BulkCreate(id) ==
    /\ createTask(Req("tasks", "POST", <<>>, tokA), RouterBody, id)
    /\ dash' = dash

\* the page is mounted: its state is the initial one, and loadTasks does
\* GET /tasks and setTasks(response.tasks)
loadTasks ==
    /\ dash.bulk # "awaiting"
    /\ dash.inflight = {}
    /\ getTasks(Req("tasks", "GET", <<>>, tokA), DefaultQuery)
    /\ dash' = [BulkInit EXCEPT
                  !.tasks = {res'.tasks[i].id : i \in DOMAIN res'.tasks}]

handleSelectTask(taskId) ==
    /\ taskId \in dash.tasks
    /\ dash' = [dash EXCEPT !.selectedTasks =
                  IF taskId \in @ THEN @ \ {taskId} ELSE @ \cup {taskId}]
    /\ UNCHANGED serverVars

\* handleBulkDelete up to its await: one DELETE per selected task is sent
handleBulkDelete ==
    /\ dash.selectedTasks # {}
    /\ dash.bulk # "awaiting"
    /\ dash.inflight = {}
    /\ dash' = [dash EXCEPT !.selected = dash.selectedTasks,
                            !.inflight = dash.selectedTasks,
                            !.answers = {},
                            !.bulk = "awaiting"]
    /\ UNCHANGED serverVars

\* the server answers one of the DELETE requests
BulkServe(id) ==
    /\ id \in dash.inflight
    /\ deleteTask(Req("tasks", "DELETE", <<id>>, tokA))
    /\ dash' = [dash EXCEPT !.inflight = @ \ {id},
                            !.answers = @ \cup {<<id, res'.status>>}]

\* handleBulkDelete after its await: Promise.all fulfils when every
\* request has, and rejects as soon as one request is rejected
handleBulkDeleteResume ==
    /\ dash.bulk = "awaiting"
    /\ \/ /\ dash.inflight = {}
          /\ \A a \in dash.answers : a[2] = 200
          /\ dash' = [dash EXCEPT !.tasks = @ \ dash.selected,
                                  !.selectedTasks = {},
                                  !.bulk = "returned"]
       \/ /\ \E a \in dash.answers : a[2] # 200
          /\ dash' = [dash EXCEPT !.bulk = "threw"]
    /\ UNCHANGED serverVars

\* the user's other session deletes a task
OtherSessionDelete(id) ==
    /\ deleteTask(Req("tasks", "DELETE", <<id>>, tokA))
    /\ dash' = dash

BulkNext ==
    \/ \E id \in ObjectIds : BulkCreate(id) /\ BulkOnly
    \/ loadTasks /\ BulkOnly
    \/ \E taskId \in ObjectIds : handleSelectTask(taskId) /\ BulkOnly
    \/ handleBulkDelete /\ BulkOnly
    \/ \E id \in ObjectIds : BulkServe(id) /\ BulkOnly
    \/ handleBulkDeleteResume /\ BulkOnly
    \/ \E id \in ObjectIds : OtherSessionDelete(id) /\ BulkOnly

BulkSpec == BulkSpecInit /\ [][BulkNext]_vars

\* handleBulkDelete has returned or thrown and every request it sent has
\* been answered
BulkFinished == dash.bulk \in {"returned", "threw"} /\ dash.inflight = {}

BulkAgrees ==
    \A id \in dash.selected : id \notin dash.tasks <=> id \notin DOMAIN tasks

\* C18: when handleBulkDelete has finished, a selected task is absent from
\* the page's list exactly when it is absent at the server, whether the
\* requests all succeeded or not
C18_BulkAgrees == [][(BulkFinished' /\ ~BulkFinished) => BulkAgrees']_vars

\* the part of C18 that holds: the same when every delete succeeded
C18_BulkAgreesWhenAllSucceed ==
    [][(BulkFinished' /\ ~BulkFinished /\ dash'.bulk = "returned") => BulkAgrees']_vars

\* two tasks were selected and deleted, and the page shows neither
C18_WitnessAll ==
    /\ dash.bulk = "returned"
    /\ dash.selected = {"id1", "id2"}
    /\ dash.tasks = {}
    /\ tasks = <<>>

\* the state C18 excludes: of two selected tasks one delete was refused and
\* the other done, and the page still lists the deleted task
C18_PartialFailure ==
    /\ dash.bulk = "threw"
    /\ dash.inflight = {}
    /\ dash.selected = {"id1", "id2"}
    /\ <<"id1", 404>> \in dash.answers
    /\ <<"id2", 200>> \in dash.answers
    /\ "id2" \in dash.tasks
    /\ "id2" \notin DOMAIN tasks

----------------------------------------------------------------------------
(* The mount of the auth provider: the effect, the answer to verifyToken,
   the continuation, the navigation a 401 starts, and a user who logs out
   at any moment *)

\* localStorage.getItem throws (storage is not accessible): the outer
\* catch logs it and the finally block ends the loading
loadUserFromStorageThrows ==
    /\ Quiet
    /\ flows.pc["loadUserFromStorage"] = "start"
    /\ auth' = SetLoading(auth, FALSE)
    /\ flows' = Finish("loadUserFromStorage", "caught")
    /\ UNCHANGED <<ls, location>>

MountStorages ==
    [token : {NoValue} \cup TokenStrings,
     user : {NoValue, "json:{"} \cup {JSONstringify(u) : u \in UserObjects}]

\* the page is opened at the landing page or at the dashboard
MountInit ==
    /\ ls \in MountStorages
    /\ auth = initialState
    /\ location \in {"/", "/dashboard"}
    /\ flows = StartFlows
    /\ ServerInit /\ pureIdle /\ dashIdle /\ limiterIdle

VerifyAnswered ==
    \E a \in Answers :
        responseInterceptor("loadUserFromStorage", a.status, a.token, a.user,
                            a.message)

MountNext ==
    \/ loadUserFromStorage /\ ClientOnly
    \/ loadUserFromStorageThrows /\ ClientOnly
    \/ VerifyAnswered /\ ClientOnly
    \/ loadUserFromStorageResume /\ ClientOnly
    \/ Reload /\ ClientOnly
    \/ logout /\ ClientOnly

\* the effect runs after the first render; axios settles every request
\* within its timeout; promise reactions and the navigation are not starved
MountSpec ==
    /\ MountInit
    /\ [][MountNext]_vars
    /\ WF_vars((loadUserFromStorage \/ loadUserFromStorageThrows) /\ ClientOnly)
    /\ WF_vars(VerifyAnswered /\ ClientOnly)
    /\ WF_vars(loadUserFromStorageResume /\ ClientOnly)
    /\ WF_vars(Reload /\ ClientOnly)

BothStored ==
    /\ ls.token # NoValue
    /\ \E u \in UserObjects : ls.user = JSONstringify(u)

NullSession ==
    /\ auth'.user = NoValue
    /\ auth'.token = NoValue
    /\ ~auth'.isAuthenticated

\* C19: the mount puts a token or a user in the state, and asks the server
\* to verify, only when localStorage holds both a token and a user; when
\* the verification is rejected the continuation removes both from
\* localStorage and leaves user = null, token = null, isAuthenticated =
\* false; whenever isLoading becomes false, isAuthenticated is true only
\* if both were stored and the verification was not rejected; and
\* isLoading always becomes false.
C19_Mount ==
    /\ [][/\ (flows.pc["loadUserFromStorage"] = "start"
               /\ flows'.pc["loadUserFromStorage"] # "start"
               /\ ~BothStored)
              => (NullSession /\ flows'.pc["loadUserFromStorage"] = "idle")
          /\ (flows.settled.call = "loadUserFromStorage"
               /\ flows.settled.rejected
               /\ flows'.settled.call = "none")
              => (NullSession /\ ls' = [token |-> NoValue, user |-> NoValue])
          /\ (auth.isLoading /\ ~auth'.isLoading /\ auth'.isAuthenticated)
              => (/\ BothStored
                  /\ flows.settled.call = "loadUserFromStorage"
                  /\ ~flows.settled.rejected)]_vars
    /\ auth.isLoading ~> ~auth.isLoading

\* a stored session has been verified and restored
C19_Witness ==
    /\ flows.last = [call |-> "loadUserFromStorage", result |-> "returned"]
    /\ ~auth.isLoading
    /\ auth.isAuthenticated
    /\ auth.token = "t1"
    /\ ls.token = "t1"

\* a stored session was rejected by the server and cleared
C19_WitnessRejected ==
    /\ flows.last = [call |-> "loadUserFromStorage", result |-> "returned"]
    /\ ~auth.isLoading
    /\ ~auth.isAuthenticated
    /\ auth.token = NoValue
    /\ ls = [token |-> NoValue, user |-> NoValue]
    /\ location = "/"

----------------------------------------------------------------------------
(* Failed login and register *)

SignInFallback(call) ==
    IF call = "login" THEN "Login failed" ELSE "Registration failed"

\* the continuation of a rejected login or register runs
SignInFails(call) ==
    /\ flows.settled.call = call
    /\ flows.settled.rejected
    /\ flows'.settled.call = "none"

\* the rejection of a login or register arrives
SignInRejected(call) ==
    /\ flows.pc[call] = "wait"
    /\ flows'.settled.call = call
    /\ flows'.settled.rejected

\* C20: when login or register fails, error becomes the server's message,
\* or 'Login failed' / 'Registration failed' when there is none, isLoading
\* becomes false, user, token and isAuthenticated are left as they are,
\* the error is thrown to the caller, and no item of localStorage gets a
\* value from the arrival of the rejection to the end of the call.
C20_FailedSignIn ==
    [][\A call \in {"login", "register"} :
          /\ SignInFails(call) =>
                /\ auth'.error =
                      IF flows.settled.message # NoValue
                      THEN flows.settled.message ELSE SignInFallback(call)
                /\ ~auth'.isLoading
                /\ auth'.user = auth.user
                /\ auth'.token = auth.token
                /\ auth'.isAuthenticated = auth.isAuthenticated
                /\ ls' = ls
                /\ flows'.last = [call |-> call, result |-> "threw"]
          /\ SignInRejected(call) =>
                /\ auth' = auth
                /\ ls'.token \in {ls.token, NoValue}
                /\ ls'.user \in {ls.user, NoValue}]_vars

\* a login of a signed-in user was refused with the server's message, and
\* the session is as it was
C20_Witness ==
    /\ flows.last = [call |-> "login", result |-> "threw"]
    /\ auth.error = "refused"
    /\ ~auth.isLoading
    /\ auth.isAuthenticated
    /\ auth.token = "t1"
    /\ ls.token = "t1"

\* a registration failed without a message from the server
C20_WitnessFallback ==
    /\ flows.last = [call |-> "register", result |-> "threw"]
    /\ auth.error = "Registration failed"
    /\ ~auth.isLoading
    /\ ~auth.isAuthenticated

----------------------------------------------------------------------------
(* Logout *)

\* the step is a call of logout(): the only handler that starts no request,
\* settles none and does not navigate
LoggedOut == flows' = flows /\ location' = location /\ (ls' # ls \/ auth' # auth)

\* a login or register has been fulfilled and its continuation runs
SignInSucceeds ==
    \E call \in {"login", "register"} :
        /\ flows.settled.call = call
        /\ ~flows.settled.rejected
        /\ flows'.settled.call = "none"

\* C21: logout leaves localStorage without token and user and the auth
\* state at user = null, token = null, isAuthenticated = false, isLoading =
\* false, error = null; afterwards only the success of a login or register
\* puts a token in localStorage, and while there is none no request leaves
\* the request interceptor with an Authorization header.
C21_Logout ==
    /\ [][/\ LoggedOut =>
                /\ ls' = [token |-> NoValue, user |-> NoValue]
                /\ auth' = [user |-> NoValue, token |-> NoValue,
                            isAuthenticated |-> FALSE, isLoading |-> FALSE,
                            error |-> NoValue]
          /\ (ls'.token # NoValue /\ ls'.token # ls.token) => SignInSucceeds]_vars
    /\ [](ls.token = NoValue =>
            \A config \in Configs :
                requestInterceptor(config, ls).headers.Authorization = NoHeader)

\* a user who had logged in has logged out
C21_Witness ==
    /\ flows.last = [call |-> "login", result |-> "returned"]
    /\ flows.pc = [c \in Calls |-> "idle"]
    /\ auth = [user |-> NoValue, token |-> NoValue, isAuthenticated |-> FALSE,
               isLoading |-> FALSE, error |-> NoValue]
    /\ ls = [token |-> NoValue, user |-> NoValue]
    /\ location = "/"

----------------------------------------------------------------------------
(* Updates of one task: every updatable field on its own, some together,
   and bodies that carry keys updateTask does not copy *)

updateFields ==
    {"title", "description", "category", "priority", "isDone", "dueDate", "tags"}

TaskPaths ==
    updateFields \cup {"id", "userId", "completedAt", "subTasks", "attachments",
                       "createdAt"}

UpdCreateBodies ==
    {[EmptyBody EXCEPT !.has = {"title", "category", "description", "tags"},
                       !.title = ta, !.category = work,
                       !.description = <<"c">>, !.tags = <<ta>>]}

UpdBodies ==
    {[EmptyBody EXCEPT !.has = {"title"}, !.title = <<" ", "b">>],
     [EmptyBody EXCEPT !.has = {"description"}, !.description = <<"d">>],
     [EmptyBody EXCEPT !.has = {"category", "priority"},
                       !.category = personal, !.priority = high],
     [EmptyBody EXCEPT !.has = {"isDone"}, !.isDone = TRUE],
     [EmptyBody EXCEPT !.has = {"isDone"}, !.isDone = FALSE],
     [EmptyBody EXCEPT !.has = {"dueDate"}, !.dueDate = <<MaxTime + 1>>],
     [EmptyBody EXCEPT !.has = {"dueDate"}, !.dueDate = <<1>>],
     [EmptyBody EXCEPT !.has = {"dueDate"}],
     [EmptyBody EXCEPT !.has = {"tags"}, !.tags = <<tb>>],
     [EmptyBody EXCEPT !.has = {"title", "userId", "subTasks", "attachments",
                                "completedAt"},
                       !.title = tb],
     EmptyBody}

UpdNext ==
    \/ Tick /\ ServerOnly
    \/ \E body \in UpdCreateBodies :
          createTask(Req("tasks", "POST", <<>>, tokA), body, "id1") /\ ServerOnly
    \/ \E body \in LifeSubTaskBodies :
          addSubTask(Req("tasks", "POST", <<"id1", "subtasks">>, tokA), body)
              /\ ServerOnly
    \/ \E body \in UpdBodies, user \in Users :
          updateTask(Req("tasks", "PATCH", <<"id1">>,
                         [kind |-> "valid", user |-> user]), body)
              /\ ServerOnly

UpdSpec == Init /\ [][UpdNext]_vars

\* updateTask has written
Updated == res'.handler = "updateTask" /\ tasks' # tasks

----------------------------------------------------------------------------
(* Creation: two users, bodies with and without title, category, priority
   and due date *)

NewBodies ==
    {[EmptyBody EXCEPT !.has = {"title", "category"},
                       !.title = ta, !.category = work],
     [EmptyBody EXCEPT !.has = {"title", "category", "priority"},
                       !.title = tb, !.category = personal, !.priority = high],
     [EmptyBody EXCEPT !.has = {"title", "category"},
                       !.title = blank, !.category = work],
     [EmptyBody EXCEPT !.has = {"title", "category"}, !.category = work],
     [EmptyBody EXCEPT !.has = {"category"}, !.category = work],
     [EmptyBody EXCEPT !.has = {"title"}, !.title = ta],
     [EmptyBody EXCEPT !.has = {"title", "category"},
                       !.title = ta, !.category = bogus],
     [EmptyBody EXCEPT !.has = {"title", "category", "dueDate"},
                       !.title = ta, !.category = work, !.dueDate = <<1>>]}

NewNext ==
    \/ Tick /\ ServerOnly
    \/ \E body \in NewBodies, user \in Users, id \in ObjectIds :
          createTask(Req("tasks", "POST", <<>>, [kind |-> "valid", user |-> user]),
                     body, id)
              /\ ServerOnly

NewSpec == Init /\ [][NewNext]_vars

\* a createTask request is answered
CreateAnswered == res'.handler = "createTask" /\ (res' # res \/ tasks' # tasks)

WhitespaceOnly(str) == \A i \in DOMAIN str : str[i] = " "

\* C23: createTask without a title, with a title of whitespace only or
\* without a category answers 400 and stores nothing; it answers 201 or
\* 400, stores nothing unless it answers 201, and with 201 stores exactly
\* one new task: the requester's, with the trimmed title, not done, without
\* completedAt and subtasks, and with priority 'medium' when the body gave
\* none.
C23_Create ==
    [][CreateAnswered =>
          LET body == res'.body
          IN  /\ ("title" \notin body.has \/ WhitespaceOnly(body.title)
                    \/ "category" \notin body.has \/ body.category = <<>>) =>
                    res'.status = 400
              /\ res'.status \in {201, 400}
              /\ res'.status # 201 => tasks' = tasks
              /\ res'.status = 201 =>
                    \E id \in DOMAIN tasks' \ DOMAIN tasks :
                        /\ DOMAIN tasks' = DOMAIN tasks \cup {id}
                        /\ \A old \in DOMAIN tasks : tasks'[old] = tasks[old]
                        /\ tasks'[id].userId = res'.req.tok.user
                        /\ tasks'[id].title = trim(body.title)
                        /\ ~tasks'[id].isDone
                        /\ tasks'[id].completedAt = NoDate
                        /\ tasks'[id].subTasks = <<>>
                        /\ ("priority" \notin body.has \/ body.priority = <<>>) =>
                              tasks'[id].priority = medium]_vars

\* each user has created a task: one with a padded title that was trimmed,
\* one without a priority
C23_Witness ==
    /\ res.handler = "createTask" /\ res.status = 201
    /\ DOMAIN tasks = {"id1", "id2"}
    /\ \E i, j \in DOMAIN tasks :
          /\ tasks[i].userId = "A" /\ tasks[i].title = trim(tb)
          /\ tasks[j].userId = "B" /\ tasks[j].priority = medium

\* a body with a title of blanks was refused
C23_WitnessBlank ==
    /\ res.handler = "createTask" /\ res.status = 400
    /\ res.body.title = blank
    /\ tasks = <<>>

----------------------------------------------------------------------------
(* Due dates: one task created and updated with due dates before and after
   the clock, with null and with none; every other field is valid *)

DueCreateBodies ==
    {[EmptyBody EXCEPT !.has = {"title", "category"},
                       !.title = ta, !.category = work],
     [EmptyBody EXCEPT !.has = {"title", "category", "dueDate"},
                       !.title = ta, !.category = work],
     [EmptyBody EXCEPT !.has = {"title", "category", "dueDate"},
                       !.title = ta, !.category = work, !.dueDate = <<1>>],
     [EmptyBody EXCEPT !.has = {"title", "category", "dueDate"},
                       !.title = ta, !.category = work, !.dueDate = <<MaxTime>>]}

DueUpdateBodies ==
    {[EmptyBody EXCEPT !.has = {"dueDate"}, !.dueDate = <<1>>],
     [EmptyBody EXCEPT !.has = {"dueDate"}, !.dueDate = <<MaxTime + 1>>],
     [EmptyBody EXCEPT !.has = {"dueDate"}],
     [EmptyBody EXCEPT !.has = {"title"}, !.title = tb]}

DueNext ==
    \/ Tick /\ ServerOnly
    \/ \E body \in DueCreateBodies, id \in ObjectIds :
          createTask(Req("tasks", "POST", <<>>, tokA), body, id) /\ ServerOnly
    \/ \E body \in DueUpdateBodies, id \in ObjectIds :
          updateTask(Req("tasks", "PATCH", <<id>>, tokA), body) /\ ServerOnly
    \/ \E id \in ObjectIds :
          deleteTask(Req("tasks", "DELETE", <<id>>, tokA)) /\ ServerOnly

DueSpec == Init /\ [][DueNext]_vars

\* createTask, or updateTask on a stored task, is answered
DueAnswered ==
    /\ res' # res \/ tasks' # tasks
    /\ \/ res'.handler = "createTask"
       \/ res'.handler = "updateTask" /\ res'.req.path[1] \in DOMAIN tasks

GivesDueDate(body) == "dueDate" \in body.has /\ body.dueDate # NoDate

DueRefused == res'.status = 400 /\ res'.message = "Validation error" /\ tasks' = tasks

\* C24: createTask or updateTask with a due date that is not later than
\* the clock answers 400 'Validation error' and changes no stored task;
\* with a null or absent due date the request is accepted
C24_DueDate ==
    [][DueAnswered =>
          /\ (GivesDueDate(res'.body) /\ res'.body.dueDate[1] <= now) => DueRefused
          /\ ~GivesDueDate(res'.body) => res'.status \in {200, 201}]_vars

\* the part of C24 that holds: a due date that is not later than the clock
\* is refused; a null due date is accepted; an absent one is accepted by
\* createTask, and by updateTask when the stored due date is null or later
\* than the clock
C24_DueDateWhenStoredValid ==
    [][DueAnswered =>
          /\ (GivesDueDate(res'.body) /\ res'.body.dueDate[1] <= now) => DueRefused
          /\ ("dueDate" \in res'.body.has /\ res'.body.dueDate = NoDate) =>
                res'.status \in {200, 201}
          /\ ("dueDate" \notin res'.body.has
                /\ (res'.handler = "updateTask" =>
                       dueDateValidator(tasks[res'.req.path[1]].dueDate, now))) =>
                res'.status \in {200, 201}]_vars

\* the state C24 excludes: an update without a due date was refused because
\* the stored due date has passed
C24_StaleDueDate ==
    /\ res.handler = "updateTask"
    /\ res.status = 400 /\ res.message = "Validation error"
    /\ "dueDate" \notin res.body.has
    /\ "id1" \in DOMAIN tasks
    /\ tasks["id1"].dueDate # NoDate
    /\ tasks["id1"].dueDate[1] <= now

----------------------------------------------------------------------------
(* Route matching order on the task router *)

\* the request just answered went to the task router with this method and
\* a path of this shape, and passed the auth middleware
TaskRoute(method, path) ==
    /\ Served
    /\ res'.req.router = "tasks"
    /\ res'.req.method = method
    /\ res'.req.path = path
    /\ res'.handler # "none"

\* the task router's own order puts the fixed paths before /:id although
\* /:id matches them as well
FixedBeforeParam ==
    \A i, j \in DOMAIN taskRoutes :
        (/\ taskRoutes[i].method = taskRoutes[j].method
         /\ taskRoutes[i].method # "USE"
         /\ Len(taskRoutes[i].path) = Len(taskRoutes[j].path)
         /\ taskRoutes[i].path # taskRoutes[j].path
         /\ \A k \in DOMAIN taskRoutes[j].path : IsParam(taskRoutes[j].path[k])
         /\ \E k \in DOMAIN taskRoutes[i].path : ~IsParam(taskRoutes[i].path[k]))
        => i < j

\* C25: the fixed paths GET /overdue and GET /category/:category are
\* registered before GET /:id, so a GET for /overdue is handled by
\* getOverdueTasks and a GET for /category/<c> by getTasksByCategory, never
\* by getTask with id "overdue" or "category"; PATCH /:id/toggle is handled by
\* toggleTask and never by updateTask
C25_RouteOrder ==
    /\ []FixedBeforeParam
    /\ [][/\ TaskRoute("GET", <<"overdue">>) => res'.handler = "getOverdueTasks"
          /\ TaskRoute("GET", <<"category", "work">>)
                => res'.handler = "getTasksByCategory"
          /\ TaskRoute("PATCH", <<"id1", "toggle">>)
                => res'.handler = "toggleTask"
          /\ (Served /\ res'.handler = "getTask")
                => /\ Len(res'.req.path) = 1
                   /\ res'.req.path[1] \notin {"overdue", "category"}
          /\ (Served /\ res'.handler = "updateTask")
                => Len(res'.req.path) = 1]_vars

\* a PATCH of /id1/toggle flipped the stored task id1 to done
C25_Witness ==
    /\ res.req.method = "PATCH"
    /\ res.req.path = <<"id1", "toggle">>
    /\ res.handler = "toggleTask"
    /\ res.status = 200
    /\ "id1" \in DOMAIN tasks
    /\ tasks["id1"].isDone

\* a GET of /overdue was answered by getOverdueTasks while task id1 is stored
C25_WitnessOverdue ==
    /\ res.req.method = "GET"
    /\ res.req.path = <<"overdue">>
    /\ res.handler = "getOverdueTasks"
    /\ res.status = 200
    /\ "id1" \in DOMAIN tasks

----------------------------------------------------------------------------
(* The Dashboard page: the task list, the selection and the create/edit
   modal against the task API.  tasks and selectedTasks are the arrays of
   the page's state; a request the server has not answered is in inflight,
   the answer the page has not yet seen in answers; last names the handler
   step taken last.  The user has a second session. *)

\* useState of newTask, and what both submit handlers reset it to
defaultNewTask ==
    [title |-> <<>>, description |-> <<>>, category |-> personal,
     priority |-> medium, dueDate |-> NoDate, tags |-> <<>>]

NoStep == [op |-> "-", id |-> "-", outcome |-> "-"]

PageStart ==
    [tasks |-> <<>>, selectedTasks |-> <<>>, showCreateModal |-> FALSE,
     editingTask |-> <<>>, newTask |-> defaultNewTask, inflight |-> {},
     answers |-> {}, selected |-> <<>>, bulk |-> "idle", last |-> NoStep]

PageInit ==
    dash = PageStart /\ ServerInit /\ pureIdle /\ clientIdle /\ limiterIdle

\* the ticks of one calendar day
DayTicks == 2

\* task.dueDate.split('T')[0] read back by the server: the ISO timestamp cut
\* to its date is the start of that day
dateInput(dueDate) ==
    IF dueDate = NoDate THEN NoDate
    ELSE <<(dueDate[1] \div DayTicks) * DayTicks>>

\* {...newTask, tags: newTask.tags.filter(tag => tag.trim())}
formBody(form) ==
    [EmptyBody EXCEPT
        !.has = {"title", "description", "category", "priority", "dueDate",
                 "tags"},
        !.title = form.title, !.description = form.description,
        !.category = form.category, !.priority = form.priority,
        !.dueDate = form.dueDate,
        !.tags = SelectSeq(form.tags, LAMBDA tag : trim(tag) # <<>>)]

listIds(list) == {list[i].id : i \in DOMAIN list}

arrayIncludes(array, x) == \E i \in DOMAIN array : array[i] = x

Step(op, id, outcome) == [op |-> op, id |-> id, outcome |-> outcome]

\* the modal's backdrop covers the page: the cards and the toolbar are
\* clickable only while it is closed
PageClickable == ~dash.showCreateModal

\* nothing the page sent is still to be answered or to be seen: the user
\* waits for the result of one click before the next
PageSettled ==
    /\ dash.inflight = {}
    /\ dash.bulk # "awaiting"
    /\ \A a \in dash.answers : a.op = "bulk"

\* the page is mounted: its state is the initial one, and loadTasks does
\* GET /tasks and setTasks(response.tasks || [])
PageLoadTasks ==
    /\ PageSettled
    /\ getTasks(Req("tasks", "GET", <<>>, tokA), DefaultQuery)
    /\ dash' = [PageStart EXCEPT !.tasks = res'.tasks,
                                 !.last = Step("loadTasks", "-", "ok")]

\* prev.includes(taskId) ? prev.filter(id => id !== taskId) : [...prev, taskId]
PageSelectTask(taskId) ==
    /\ PageClickable
    /\ taskId \in listIds(dash.tasks)
    /\ dash' = [dash EXCEPT
          !.selectedTasks =
              IF arrayIncludes(@, taskId)
              THEN SelectSeq(@, LAMBDA id : id # taskId)
              ELSE Append(@, taskId),
          !.last = Step("select", taskId, "ok")]
    /\ UNCHANGED serverVars

\* a handler up to its await: the request is sent
PageSend(op, id, body) ==
    /\ PageSettled
    /\ dash' = [dash EXCEPT
          !.inflight = @ \cup {[op |-> op, id |-> id, body |-> body]},
          !.last = Step(op, id, "sent")]
    /\ UNCHANGED serverVars

\* the answer is consumed by the handler that awaited it
PageSeen(a, list, outcome) ==
    [dash EXCEPT !.answers = @ \ {a}, !.tasks = list,
                 !.last = Step(a.op, a.id, outcome)]

handleToggleTask(taskId) ==
    /\ PageClickable
    /\ taskId \in listIds(dash.tasks)
    /\ PageSend("toggle", taskId, EmptyBody)

\* the toggled task moves to the front of the list
handleToggleTaskResume_toFront(a) ==
    /\ a.op = "toggle"
    /\ dash' = IF a.status = 200
               THEN PageSeen(a, a.task \o SelectSeq(dash.tasks,
                                   LAMBDA task : task.id # a.id), "ok")
               ELSE PageSeen(a, dash.tasks, "failed")
    /\ UNCHANGED serverVars

\* prev.map(task => task._id === taskId ? response.task : task), or the
\* catch block
handleToggleTaskResume(a) ==
    /\ a.op = "toggle"
    /\ dash' = IF a.status = 200
               THEN PageSeen(a, [i \in DOMAIN dash.tasks |->
                                   IF dash.tasks[i].id = a.id
                                   THEN a.task[1] ELSE dash.tasks[i]], "ok")
               ELSE PageSeen(a, dash.tasks, "failed")
    /\ UNCHANGED serverVars

\* window.confirm, then the DELETE
handleDeleteTask(taskId, confirmed) ==
    /\ PageClickable
    /\ taskId \in listIds(dash.tasks)
    /\ IF confirmed
       THEN PageSend("delete", taskId, EmptyBody)
       ELSE /\ dash' = [dash EXCEPT !.last = Step("delete", taskId, "declined")]
            /\ UNCHANGED serverVars

\* prev.filter(task => task._id !== taskId), or the catch block
handleDeleteTaskResume(a) ==
    /\ a.op = "delete"
    /\ dash' = IF a.status = 200
               THEN PageSeen(a, SelectSeq(dash.tasks,
                                   LAMBDA task : task.id # a.id), "ok")
               ELSE PageSeen(a, dash.tasks, "failed")
    /\ UNCHANGED serverVars

\* the New Task buttons: setShowCreateModal(true)
openCreateModal ==
    /\ PageClickable
    /\ dash' = [dash EXCEPT !.showCreateModal = TRUE,
                            !.last = Step("open", "-", "ok")]
    /\ UNCHANGED serverVars

\* Cancel, or a click on the backdrop
closeModal ==
    /\ dash.showCreateModal
    /\ dash' = [dash EXCEPT
          !.showCreateModal = FALSE,
          !.editingTask = <<>>,
          !.last = Step("close", IF dash.editingTask = <<>> THEN "-"
                                 ELSE dash.editingTask[1].id, "ok")]
    /\ UNCHANGED serverVars

\* the title input's onChange
changeTitle(value) ==
    /\ dash.showCreateModal
    /\ dash' = [dash EXCEPT !.newTask.title = value,
                            !.last = Step("change", "-", "ok")]
    /\ UNCHANGED serverVars

handleEditTask(task) ==
    /\ PageClickable
    /\ arrayIncludes(dash.tasks, task)
    /\ dash' = [dash EXCEPT
          !.editingTask = <<task>>,
          !.newTask = [title |-> task.title, description |-> task.description,
                       category |-> task.category, priority |-> task.priority,
                       dueDate |-> dateInput(task.dueDate), tags |-> task.tags],
          !.showCreateModal = TRUE,
          !.last = Step("edit", task.id, "ok")]
    /\ UNCHANGED serverVars

\* the form's onSubmit while editingTask is null
handleCreateTask ==
    /\ dash.showCreateModal
    /\ dash.editingTask = <<>>
    /\ IF trim(dash.newTask.title) = <<>>
       THEN /\ dash' = [dash EXCEPT !.last = Step("create", "-", "no title")]
            /\ UNCHANGED serverVars
       ELSE PageSend("create", "-", formBody(dash.newTask))

handleCreateTaskResume(a) ==
    /\ a.op = "create"
    /\ dash' = IF a.status = 201
               THEN [PageSeen(a, a.task \o dash.tasks, "ok") EXCEPT
                        !.newTask = defaultNewTask, !.showCreateModal = FALSE]
               ELSE PageSeen(a, dash.tasks, "failed")
    /\ UNCHANGED serverVars

\* the form's onSubmit while a task is edited
handleUpdateTask ==
    /\ dash.showCreateModal
    /\ dash.editingTask # <<>>
    /\ IF trim(dash.newTask.title) = <<>>
       THEN /\ dash' = [dash EXCEPT !.last = Step("update", "-", "no title")]
            /\ UNCHANGED serverVars
       ELSE PageSend("update", dash.editingTask[1].id, formBody(dash.newTask))

handleUpdateTaskResume(a) ==
    /\ a.op = "update"
    /\ dash' = IF a.status = 200
               THEN [PageSeen(a, [i \in DOMAIN dash.tasks |->
                                    IF dash.tasks[i].id = a.id
                                    THEN a.task[1] ELSE dash.tasks[i]], "ok")
                     EXCEPT !.editingTask = <<>>, !.newTask = defaultNewTask,
                            !.showCreateModal = FALSE]
               ELSE PageSeen(a, dash.tasks, "failed")
    /\ UNCHANGED serverVars

\* handleBulkDelete up to its await: one DELETE per selected id
PageBulkDelete(confirmed) ==
    /\ PageClickable
    /\ dash.selectedTasks # <<>>
    /\ PageSettled
    /\ dash' = IF confirmed
               THEN [dash EXCEPT
                       !.selected = dash.selectedTasks,
                       !.inflight = @ \cup
                           {[op |-> "bulk", id |-> dash.selectedTasks[i],
                             body |-> EmptyBody] : i \in DOMAIN dash.selectedTasks},
                       !.answers = {a \in @ : a.op # "bulk"},
                       !.bulk = "awaiting",
                       !.last = Step("bulk", "-", "sent")]
               ELSE [dash EXCEPT !.last = Step("bulk", "-", "declined")]
    /\ UNCHANGED serverVars

\* handleBulkDelete after its await: Promise.all fulfils when every request
\* has, and rejects as soon as one is rejected
PageBulkDeleteResume ==
    /\ dash.bulk = "awaiting"
    /\ \/ /\ \A r \in dash.inflight : r.op # "bulk"
          /\ \A a \in dash.answers : a.op = "bulk" => a.status = 200
          /\ dash' = [dash EXCEPT
                !.tasks = SelectSeq(@, LAMBDA task :
                              ~arrayIncludes(dash.selected, task.id)),
                !.selectedTasks = <<>>,
                !.answers = {a \in @ : a.op # "bulk"},
                !.bulk = "idle",
                !.last = Step("bulk", "-", "ok")]
       \/ /\ \E a \in dash.answers : a.op = "bulk" /\ a.status # 200
          /\ dash' = [dash EXCEPT !.bulk = "idle",
                                  !.last = Step("bulk", "-", "failed")]
    /\ UNCHANGED serverVars

\* the server answers a request of the page
PageServe(r) ==
    /\ r \in dash.inflight
    /\ \/ r.op = "toggle"
            /\ toggleTask(Req("tasks", "PATCH", <<r.id, "toggle">>, tokA))
       \/ r.op \in {"delete", "bulk"}
            /\ deleteTask(Req("tasks", "DELETE", <<r.id>>, tokA))
       \/ r.op = "update"
            /\ updateTask(Req("tasks", "PATCH", <<r.id>>, tokA), r.body)
       \/ r.op = "create"
            /\ \E id \in ObjectIds :
                  createTask(Req("tasks", "POST", <<>>, tokA), r.body, id)
    /\ dash' = [dash EXCEPT
          !.inflight = @ \ {r},
          !.answers = @ \cup {[op |-> r.op, id |-> r.id,
                               status |-> res'.status, task |-> res'.tasks]}]

\* the user's other session creates a task due after MaxTime, and deletes
\* tasks
PageOtherBody ==
    [EmptyBody EXCEPT !.has = {"title", "category", "dueDate"},
                      !.title = tb, !.category = work,
                      !.dueDate = <<MaxTime + 1>>]

PageOtherCreate(id) ==
    /\ createTask(Req("tasks", "POST", <<>>, tokA), PageOtherBody, id)
    /\ dash' = dash

PageOtherDelete(id) ==
    /\ deleteTask(Req("tasks", "DELETE", <<id>>, tokA))
    /\ dash' = dash

\* the list and the selection
PageNext ==
    \/ PageLoadTasks /\ BulkOnly
    \/ \E taskId \in ObjectIds : PageSelectTask(taskId) /\ BulkOnly
    \/ \E taskId \in ObjectIds : handleToggleTask(taskId) /\ BulkOnly
    \/ \E a \in dash.answers : handleToggleTaskResume(a) /\ BulkOnly
    \/ \E taskId \in ObjectIds, confirmed \in BOOLEAN :
          handleDeleteTask(taskId, confirmed) /\ BulkOnly
    \/ \E a \in dash.answers : handleDeleteTaskResume(a) /\ BulkOnly
    \/ \E confirmed \in BOOLEAN : PageBulkDelete(confirmed) /\ BulkOnly
    \/ PageBulkDeleteResume /\ BulkOnly
    \/ \E r \in dash.inflight : PageServe(r) /\ BulkOnly
    \/ \E id \in ObjectIds : PageOtherCreate(id) /\ BulkOnly
    \/ \E id \in ObjectIds : PageOtherDelete(id) /\ BulkOnly

PageSpec == PageInit /\ [][PageNext]_vars

\* the list and the create/edit modal
ModalNext ==
    \/ PageLoadTasks /\ BulkOnly
    \/ openCreateModal /\ BulkOnly
    \/ closeModal /\ BulkOnly
    \/ changeTitle(ta) /\ BulkOnly
    \/ \E i \in DOMAIN dash.tasks : handleEditTask(dash.tasks[i]) /\ BulkOnly
    \/ handleCreateTask /\ BulkOnly
    \/ \E a \in dash.answers : handleCreateTaskResume(a) /\ BulkOnly
    \/ handleUpdateTask /\ BulkOnly
    \/ \E a \in dash.answers : handleUpdateTaskResume(a) /\ BulkOnly
    \/ \E r \in dash.inflight : PageServe(r) /\ BulkOnly
    \/ \E id \in ObjectIds : PageOtherCreate(id) /\ BulkOnly

ModalSpec == PageInit /\ [][ModalNext]_vars

\* C26: in every reachable Dashboard state selectedTasks contains only ids
\* of tasks that are in the Dashboard's task list, and contains no id twice
C26_Selection ==
    /\ \A i \in DOMAIN dash.selectedTasks :
          dash.selectedTasks[i] \in listIds(dash.tasks)
    /\ \A i, j \in DOMAIN dash.selectedTasks :
          dash.selectedTasks[i] = dash.selectedTasks[j] => i = j

\* the part of C26 that holds: selectedTasks contains no id twice, and an
\* id in it that is not in the list is one a single delete has removed
C26_NoIdTwice ==
    /\ \A i, j \in DOMAIN dash.selectedTasks :
          dash.selectedTasks[i] = dash.selectedTasks[j] => i = j
    /\ [][\A i \in DOMAIN dash'.selectedTasks :
            (/\ dash'.selectedTasks[i] \notin listIds(dash'.tasks)
             /\ dash'.selectedTasks[i] \in listIds(dash.tasks))
            => dash'.last = Step("delete", dash'.selectedTasks[i], "ok")]_vars

\* the state C26 excludes: the selected task id1 was deleted with its own
\* delete button, and selectedTasks still holds its id
C26_StaleSelection ==
    /\ dash.last = Step("delete", "id1", "ok")
    /\ dash.selectedTasks = <<"id1">>
    /\ "id1" \notin listIds(dash.tasks)
    /\ "id1" \notin DOMAIN tasks

\* the modal was opened with a New Task button right after an edit was
\* closed with Cancel or a click on the backdrop
OpenedAfterEdit ==
    /\ dash.last.op = "close"
    /\ dash.last.id # "-"
    /\ dash'.last.op = "open"

\* C27: whenever the task modal is opened in create mode after an edit was
\* closed with Cancel or a backdrop click, the form fields hold the default
\* values, so submitting it cannot create a task that carries the field
\* values of the previously edited task
C27_CreateModeDefaults ==
    [][OpenedAfterEdit =>
          /\ dash'.editingTask = <<>>
          /\ dash'.newTask = defaultNewTask]_vars

\* the part of C27 that holds: the modal opens in create mode, and the form
\* fields are the defaults after every successful submit
C27_DefaultsAfterSubmit ==
    [][/\ OpenedAfterEdit => dash'.editingTask = <<>>
       /\ (dash'.last.op \in {"create", "update"} /\ dash'.last.outcome = "ok")
             => /\ dash'.newTask = defaultNewTask
                /\ ~dash'.showCreateModal
       /\ (dash'.last.op = "update" /\ dash'.last.outcome = "ok")
             => dash'.editingTask = <<>>]_vars

\* the state C27 excludes: the edit of task id1 was cancelled, and the form
\* opened for a new task holds the fields of id1
C27_StaleForm ==
    /\ dash.last.op = "open"
    /\ dash.editingTask = <<>>
    /\ "id1" \in DOMAIN tasks
    /\ dash.newTask.title = tasks["id1"].title
    /\ dash.newTask.category = work
    /\ dash.newTask.dueDate # NoDate

\* and its consequence: the submit created task id2 with the title, the
\* category and the due day of id1
C27_CarriedOver ==
    /\ dash.last = Step("create", "-", "ok")
    /\ DOMAIN tasks = {"id1", "id2"}
    /\ tasks["id2"].title = tasks["id1"].title
    /\ tasks["id2"].category = work
    /\ tasks["id2"].dueDate = dateInput(tasks["id1"].dueDate)
    /\ dash.tasks[1] = tasks["id2"]

\* the list without its k-th entry
without(list, k) == SubSeq(list, 1, k - 1) \o SubSeq(list, k + 1, Len(list))

\* this step is the continuation of the handler that awaited answer a
Resumes(a) == a \in dash.answers /\ dash'.answers = dash.answers \ {a}

\* C28: a successful toggle replaces exactly the entry whose _id matches by
\* the task the server returned and keeps the list's length and order; a
\* successful delete removes exactly that entry; a failed request, or a
\* delete whose confirmation was declined, leaves the list unchanged
C28_OnlyTarget ==
    [][/\ \A a \in dash.answers :
             (Resumes(a) /\ a.op = "toggle" /\ a.status = 200)
             => /\ Len(dash'.tasks) = Len(dash.tasks)
                /\ \A i \in DOMAIN dash.tasks :
                      dash'.tasks[i] = IF dash.tasks[i].id = a.id
                                       THEN a.task[1] ELSE dash.tasks[i]
                /\ a.task[1].id = a.id
       /\ \A a \in dash.answers :
             (Resumes(a) /\ a.op = "delete" /\ a.status = 200)
             => \E k \in DOMAIN dash.tasks :
                   /\ dash.tasks[k].id = a.id
                   /\ dash'.tasks = without(dash.tasks, k)
       /\ \A a \in dash.answers :
             (Resumes(a) /\ a.op \in {"toggle", "delete"} /\ a.status # 200)
             => dash'.tasks = dash.tasks
       /\ (\E taskId \in ObjectIds : handleDeleteTask(taskId, FALSE))
             => (dash'.tasks = dash.tasks /\ tasks' = tasks)]_vars

\* of the two listed tasks the second, id1, was toggled: it is shown done at
\* its place, and id2 before it is as it was
C28_Witness ==
    /\ dash.last = Step("toggle", "id1", "ok")
    /\ Len(dash.tasks) = 2
    /\ dash.tasks[1].id = "id2" /\ ~dash.tasks[1].isDone
    /\ dash.tasks[2].id = "id1" /\ dash.tasks[2].isDone
    /\ dash.tasks[2] = tasks["id1"]

\* of the two listed tasks the first was deleted
C28_WitnessDelete ==
    /\ dash.last = Step("delete", "id2", "ok")
    /\ listIds(dash.tasks) = {"id1"}
    /\ DOMAIN tasks = {"id1"}

\* a toggle of a task the other session had deleted failed, and the task is
\* still listed
C28_WitnessFailed ==
    /\ dash.last = Step("toggle", "id1", "failed")
    /\ "id1" \in listIds(dash.tasks)
    /\ "id1" \notin DOMAIN tasks

\* the confirmation of a delete was declined
C28_WitnessDeclined ==
    /\ dash.last = Step("delete", "id1", "declined")
    /\ "id1" \in listIds(dash.tasks)
    /\ "id1" \in DOMAIN tasks

----------------------------------------------------------------------------
(* Sorting by due date *)

hasDueDate(task) == task.dueDate # NoDate

\* the position of a task in a list of distinct tasks
indexOf(taskList, task) == CHOOSE i \in 1..Len(taskList) : taskList[i].id = task.id

\* the tasks with a due date and those without are in this order, and those
\* without one are in their input order
NoDateOrder(input, result, sortOrder, dated) ==
    /\ \A i, j \in 1..Len(result) :
          (result[i] \in dated /\ ~hasDueDate(result[j]))
          => IF sortOrder = "asc" THEN i < j ELSE j < i
    /\ \A i, j \in 1..Len(result) :
          (i < j /\ ~hasDueDate(result[i]) /\ ~hasDueDate(result[j]))
          => indexOf(input, result[i]) < indexOf(input, result[j])

SortedByDueDate == pout.op = "sortTasks" /\ pin.sortBy = "dueDate"

\* C29: when sorting by dueDate, in ascending order every task that has a
\* due date precedes every task that has none, in descending order every
\* task without a due date precedes every task that has one, and the tasks
\* without a due date keep their relative input order
C29_NoDateLast ==
    SortedByDueDate =>
        NoDateOrder(pin.tasks, pout.result, DefaultOrder(pin.sortOrder),
                    {task \in Range(pin.tasks) : hasDueDate(task)})

\* the part of C29 that holds: the same for the tasks due before 9999-12-31
C29_NoDateLastBeforeFarFuture ==
    SortedByDueDate =>
        NoDateOrder(pin.tasks, pout.result, DefaultOrder(pin.sortOrder),
                    {task \in Range(pin.tasks) :
                        hasDueDate(task) /\ task.dueDate[1] < FarFuture})

\* the state C29 excludes: in ascending order the task due after the year
\* 9999 comes behind the two tasks without a due date
C29_AfterFarFuture ==
    /\ SortedByDueDate
    /\ pin.sortOrder = "asc"
    /\ Len(pin.tasks) = 3
    /\ pin.tasks[1].dueDate = <<FarFuture + 1>>
    /\ ~hasDueDate(pin.tasks[2]) /\ ~hasDueDate(pin.tasks[3])
    /\ pout.result = <<pin.tasks[2], pin.tasks[3], pin.tasks[1]>>

====
